---- MODULE Spec2Model ----
(***************************************************************************)
(* Verification model of the coherence core of EthicalAI:                  *)
(*   - AxisRegistry (src/coherence/api/axis_registry.py): threads calling  *)
(*     load / activate / get_active against a shared cache, the re-entrant *)
(*     lock, the active-pack pointer and the artifacts directory;          *)
(*   - AxisPack.validate and its JSON round trip (axis/pack.py);           *)
(*   - the resonance engine and the Choquet integral (metrics/resonance.py,*)
(*     axis/choquet.py) and the entry points that call them.               *)
(* Real numbers are fixed-point integers; each section states its unit.    *)
(***************************************************************************)
EXTENDS Integers, Sequences, FiniteSets, TLC

VARIABLES
    disk,         \* artifacts directory: pack id -> [npz, meta] file contents
    cache,        \* AxisRegistry._cache: insertion-ordered dict, a sequence of [pack_id, lp]
    active,       \* AxisRegistry._active
    active_file,  \* contents of active.json
    lock,         \* AxisRegistry._lock (RLock): [owner, count]
    pc,           \* per thread: position in the method it is running
    call,         \* per thread: [op, pack_id] of the running call
    loc,          \* per thread: locals of _load_from_disk
    ret,          \* per thread: what the finished call returned or raised
    ncalls,       \* number of calls started so far
    nused,        \* highest loadable pack id named by a call so far
    ntamper,      \* number of changes made to the artifacts directory
    t0,           \* per thread: ntamper when its call started
    uses,         \* history: cached pack ids, least recently used first
    evicted,      \* history: the last eviction of the running calls
    ucache,       \* reference registry with an unbounded cache: its cache
    uactive,      \* reference registry: its active pointer
    uret,         \* reference registry: per thread, the result of the same call
    fn,           \* pure-function sections: the function applied ("none" before)
    arg,          \* pure-function sections: its input
    out           \* pure-function sections: its result

regVars == <<disk, cache, active, active_file, lock, pc, call, loc, ret,
             ncalls, nused, ntamper, t0, uses, evicted, ucache, uactive, uret>>
fnVars == <<fn, arg, out>>
vars == <<regVars, fnVars>>

(***************************************************************************)
(* Bounds of the model                                                     *)
(***************************************************************************)
NumThreads == 2
NumBad == 1
MaxCalls == 5
MaxSeqCalls == 6
MaxTampers == 1
EncoderDim == 3

(***************************************************************************)
(* AxisRegistry                                                            *)
(***************************************************************************)
CacheSize == 4

NumGood == CacheSize + 1
Threads == 1 .. NumThreads
Packs == 1 .. (NumGood + NumBad)
NoPack == 0

\* Files of the artifacts directory. An npz file is identified by the hash of
\* its bytes; the arrays in it are described by what _validate_Q looks at.
NoNpz == [exists |-> FALSE, hash |-> 0, ndim |-> 0, D |-> 0, k |-> 0, ortho |-> FALSE]
NoMeta == [exists |-> FALSE, schema |-> "", bp_dim |-> 0, top_dim |-> 0, nnames |-> 0]
GoodNpz(h) ==
    [exists |-> TRUE, hash |-> h, ndim |-> 2, D |-> EncoderDim, k |-> 2, ortho |-> TRUE]
GoodMeta ==
    [exists |-> TRUE, schema |-> "axis-pack/1.1", bp_dim |-> 0, top_dim |-> EncoderDim,
     nnames |-> 2]

SUPPORTED_SCHEMA_VERSIONS == {"axis-pack/1.1"}

\* AxisRegistry._validate_meta: "ok" or the exception raised.
\* bp_dim / top_dim = 0 stands for an absent encoder_dim key.
_validate_meta(meta) ==
    LET enc_dim == IF meta.bp_dim # 0 THEN meta.bp_dim ELSE meta.top_dim
    IN  IF meta.schema \notin SUPPORTED_SCHEMA_VERSIONS THEN "ValueError"
        ELSE IF enc_dim = 0 THEN "ValueError"
        ELSE IF enc_dim # EncoderDim THEN "ValueError"
        ELSE "ok"

\* AxisRegistry._validate_Q: "ok" or the exception raised.
_validate_Q(npz, nnames) ==
    IF npz.ndim # 2 THEN "ValueError"
    ELSE IF npz.D # EncoderDim THEN "ValueError"
    ELSE IF npz.k # nnames THEN "ValueError"
    ELSE IF ~npz.ortho THEN "ValueError"
    ELSE "ok"

\* What the artifacts directory holds for the packs that cannot be loaded
\* at start, by position: missing files, an unsupported schema, a Q that is
\* not orthonormal, an encoder dimension that is not the registry's.
BadDisk(i) ==
    CASE i % 4 = 1 -> [npz |-> NoNpz, meta |-> NoMeta]
      [] i % 4 = 2 -> [npz |-> GoodNpz(1),
                       meta |-> [GoodMeta EXCEPT !.schema = "axis-pack/1.0"]]
      [] i % 4 = 3 -> [npz |-> [GoodNpz(1) EXCEPT !.ortho = FALSE], meta |-> GoodMeta]
      [] OTHER     -> [npz |-> GoodNpz(1),
                       meta |-> [GoodMeta EXCEPT !.bp_dim = EncoderDim + 1]]

\* The changes an outside process makes to the artifacts of one pack.
TamperedDisk(d) ==
    { [d EXCEPT !.meta = [GoodMeta EXCEPT !.schema = "axis-pack/1.0"]],
      [d EXCEPT !.npz = [GoodNpz(2) EXCEPT !.ortho = FALSE]],
      [d EXCEPT !.npz = GoodNpz(3)],
      [npz |-> NoNpz, meta |-> NoMeta] } \ {d}

\* Results of a call.
NoLP == [pack_id |-> NoPack, hash |-> 0, npz |-> NoNpz, meta |-> NoMeta]
RNone == [kind |-> "None", err |-> "", lp |-> NoLP]
RPack(lp) == [kind |-> "pack", err |-> "", lp |-> lp]
RErr(e) == [kind |-> "error", err |-> e, lp |-> NoLP]
NoCall == [op |-> "", pack_id |-> NoPack]
NoLoc == [lp |-> NoLP, key |-> NoPack]
\* An eviction: the pack removed, the least recently used pack at that time,
\* and whether the pack being loaded was itself in the cache (another entry).
NoEvict == [victim |-> NoPack, lru |-> NoPack, reload |-> FALSE]

Free == [owner |-> 0, count |-> 0]
Acquire(t) == [owner |-> t, count |-> lock.count + 1]
Release == IF lock.count <= 1 THEN Free ELSE [lock EXCEPT !.count = @ - 1]
CanAcquire(t) == lock.owner \in {0, t}

\* The insertion-ordered dict.
Keys(c) == { c[i].pack_id : i \in 1 .. Len(c) }
IndexOf(c, p) == CHOOSE i \in 1 .. Len(c) : c[i].pack_id = p
Lookup(c, p) == c[IndexOf(c, p)].lp
DictPop(c, p) == SelectSeq(c, LAMBDA e : e.pack_id # p)
DictSet(c, p, lp) ==
    IF p \in Keys(c) THEN [c EXCEPT ![IndexOf(c, p)] = [pack_id |-> p, lp |-> lp]]
    ELSE Append(c, [pack_id |-> p, lp |-> lp])
Touch(u, p) == Append(SelectSeq(u, LAMBDA q : q # p), p)

\* _load_from_disk on a snapshot d of the pack's files: existence check, hash,
\* meta, arrays, then _validate_meta and _validate_Q.
ReadPack(p, d) ==
    IF ~d.npz.exists \/ ~d.meta.exists THEN RErr("FileNotFoundError")
    ELSE IF _validate_meta(d.meta) # "ok" THEN RErr(_validate_meta(d.meta))
    ELSE IF _validate_Q(d.npz, d.meta.nnames) # "ok"
         THEN RErr(_validate_Q(d.npz, d.meta.nnames))
    ELSE RPack([pack_id |-> p, hash |-> d.npz.hash, npz |-> d.npz, meta |-> d.meta])

\* The reference registry: the same three methods over a cache that never
\* evicts, each call run as one step when the call starts.
URefLoad(p) == IF ucache[p] # NoLP THEN RPack(ucache[p]) ELSE ReadPack(p, disk[p])
UCacheAfter(p, r) == IF r.kind = "pack" THEN [ucache EXCEPT ![p] = r.lp] ELSE ucache
URefGetActive ==
    IF uactive = NoPack THEN RNone
    ELSE IF URefLoad(uactive).kind = "error" THEN RNone ELSE URefLoad(uactive)

RegInit ==
    /\ disk = [p \in Packs |-> IF p <= NumGood
                               THEN [npz |-> GoodNpz(1), meta |-> GoodMeta]
                               ELSE BadDisk(p - NumGood)]
    /\ cache = <<>>
    /\ active = NoPack
    /\ active_file = [pack_id |-> NoPack, hash |-> 0]
    /\ lock = Free
    /\ pc = [t \in Threads |-> "idle"]
    /\ call = [t \in Threads |-> NoCall]
    /\ loc = [t \in Threads |-> NoLoc]
    /\ ret = [t \in Threads |-> RNone]
    /\ ncalls = 0
    /\ nused = 0
    /\ ntamper = 0
    /\ t0 = [t \in Threads |-> 0]
    /\ uses = <<>>
    /\ evicted = NoEvict
    /\ ucache = [p \in Packs |-> NoLP]
    /\ uactive = NoPack
    /\ uret = [t \in Threads |-> RNone]

FnIdle == fn = "none" /\ arg = <<>> /\ out = <<>>

\* Pack ids are interchangeable: callers name the loadable packs in
\* increasing order of first use.
CanName(p) == p <= nused + 1 \/ p > NumGood
Named(p) == IF p <= NumGood /\ p > nused THEN p ELSE nused

StartCall(t, op, p) ==
    /\ pc[t] = "idle"
    /\ ncalls' = ncalls + 1
    /\ call' = [call EXCEPT ![t] = [op |-> op, pack_id |-> p]]
    /\ t0' = [t0 EXCEPT ![t] = ntamper]
    /\ evicted' = NoEvict
    /\ UNCHANGED <<disk, cache, active, active_file, lock, loc, ret, ntamper, uses, fnVars>>

\* A raise inside load / _load_from_disk: the with-blocks release the lock,
\* get_active swallows the exception and returns None.
Raise(t, e) ==
    /\ ret' = [ret EXCEPT ![t] = IF call[t].op = "get_active" THEN RNone ELSE RErr(e)]
    /\ lock' = IF call[t].op = "activate" THEN lock ELSE Free
    /\ pc' = [pc EXCEPT ![t] = "done"]
    /\ loc' = [loc EXCEPT ![t] = NoLoc]

\* load returns lp; get_active passes it on.
Return(t, lp) ==
    /\ ret' = [ret EXCEPT ![t] = RPack(lp)]
    /\ lock' = Free
    /\ pc' = [pc EXCEPT ![t] = "done"]
    /\ loc' = [loc EXCEPT ![t] = NoLoc]

Goto(t, l) == pc' = [pc EXCEPT ![t] = l]

hist == <<ncalls, nused, ntamper, t0, ucache, uactive, uret>>

(* ---- callers ---- *)
CallLoad(t, p) ==
    /\ CanName(p)
    /\ StartCall(t, "load", p)
    /\ Goto(t, "ld")
    /\ nused' = Named(p)
    /\ uret' = [uret EXCEPT ![t] = URefLoad(p)]
    /\ ucache' = UCacheAfter(p, URefLoad(p))
    /\ UNCHANGED uactive

CallActivate(t, p) ==
    /\ CanName(p)
    /\ StartCall(t, "activate", p)
    /\ Goto(t, "lfd_read")
    /\ nused' = Named(p)
    /\ uret' = [uret EXCEPT ![t] = ReadPack(p, disk[p])]
    /\ ucache' = UCacheAfter(p, ReadPack(p, disk[p]))
    /\ uactive' = IF ReadPack(p, disk[p]).kind = "pack" THEN p ELSE uactive

CallGetActive(t) ==
    /\ StartCall(t, "get_active", NoPack)
    /\ Goto(t, "ga")
    /\ uret' = [uret EXCEPT ![t] = URefGetActive]
    /\ ucache' = IF uactive = NoPack THEN ucache ELSE UCacheAfter(uactive, URefLoad(uactive))
    /\ UNCHANGED <<nused, uactive>>

\* The caller takes the result; the thread is free for its next call.
Done(t) ==
    /\ pc[t] = "done"
    /\ Goto(t, "idle")
    /\ call' = [call EXCEPT ![t] = NoCall]
    /\ ret' = [ret EXCEPT ![t] = RNone]
    /\ uret' = [uret EXCEPT ![t] = RNone]
    /\ t0' = [t0 EXCEPT ![t] = 0]
    /\ UNCHANGED <<disk, cache, active, active_file, lock, loc, ncalls, nused, ntamper,
                   uses, evicted, ucache, uactive, fnVars>>

\* An outside process rewrites or deletes the artifacts of a pack.
Tamper(p) ==
    /\ p <= nused
    /\ ntamper < MaxTampers
    /\ ntamper' = ntamper + 1
    /\ \E d \in TamperedDisk(disk[p]) : disk' = [disk EXCEPT ![p] = d]
    /\ UNCHANGED <<cache, active, active_file, lock, pc, call, loc, ret, ncalls, nused,
                   t0, uses, evicted, ucache, uactive, uret, fnVars>>

(* ---- AxisRegistry.load ---- *)
\* Ld with the fallback to _load_from_disk lost: a miss raises KeyError.
LdCachedOnly(t) ==
    /\ pc[t] = "ld"
    /\ CanAcquire(t)
    /\ IF call[t].pack_id \in Keys(cache)
       THEN /\ lock' = Acquire(t)
            /\ Goto(t, "ld_hit")
            /\ UNCHANGED <<ret, loc>>
       ELSE Raise(t, "KeyError")
    /\ UNCHANGED <<disk, cache, active, active_file, call, uses, evicted, hist, fnVars>>

\* with self._lock: if pack_id in self._cache
Ld(t) ==
    /\ pc[t] = "ld"
    /\ CanAcquire(t)
    /\ lock' = Acquire(t)
    /\ Goto(t, IF call[t].pack_id \in Keys(cache) THEN "ld_hit" ELSE "lfd_read")
    /\ UNCHANGED <<disk, cache, active, active_file, call, loc, ret, uses, evicted, hist,
                   fnVars>>

\* return self._cache[pack_id]
LdHit(t) ==
    /\ pc[t] = "ld_hit"
    /\ IF call[t].pack_id \in Keys(cache)
       THEN /\ Return(t, Lookup(cache, call[t].pack_id))
            /\ uses' = Touch(uses, call[t].pack_id)
       ELSE /\ Raise(t, "KeyError")
            /\ UNCHANGED uses
    /\ UNCHANGED <<disk, cache, active, active_file, call, evicted, hist, fnVars>>

(* ---- AxisRegistry._load_from_disk ---- *)
\* _load_from_disk for an activate that moves the active pointer before the
\* artifacts are validated
LfdReadActivatingFirst(t) ==
    LET r == ReadPack(call[t].pack_id, disk[call[t].pack_id])
    IN  /\ pc[t] = "lfd_read"
        /\ IF r.kind = "error"
           THEN Raise(t, r.err)
           ELSE /\ Goto(t, "lfd_len")
                /\ loc' = [loc EXCEPT ![t].lp = r.lp]
                /\ UNCHANGED <<ret, lock>>
        /\ active' = IF call[t].op = "activate" THEN call[t].pack_id ELSE active
        /\ UNCHANGED <<disk, cache, active_file, call, uses, evicted, hist, fnVars>>

\* The existence check, the hash, meta.json and the arrays of the pack, read
\* as one snapshot of its files, then _validate_meta and _validate_Q.
LfdRead(t) ==
    LET r == ReadPack(call[t].pack_id, disk[call[t].pack_id])
    IN  /\ pc[t] = "lfd_read"
        /\ IF r.kind = "error"
           THEN Raise(t, r.err)
           ELSE /\ Goto(t, "lfd_len")
                /\ loc' = [loc EXCEPT ![t].lp = r.lp]
                /\ UNCHANGED <<ret, lock>>
        /\ UNCHANGED <<disk, cache, active, active_file, call, uses, evicted, hist, fnVars>>

\* if len(self._cache) >= 4
LfdLen(t) ==
    /\ pc[t] = "lfd_len"
    /\ Goto(t, IF Len(cache) >= CacheSize THEN "lfd_iter" ELSE "lfd_put")
    /\ UNCHANGED <<disk, cache, active, active_file, lock, call, loc, ret, uses, evicted,
                   hist, fnVars>>

\* next(iter(self._cache))
LfdIter(t) ==
    /\ pc[t] = "lfd_iter"
    /\ IF cache = <<>>
       THEN Raise(t, "StopIteration")
       ELSE /\ Goto(t, "lfd_pop")
            /\ loc' = [loc EXCEPT ![t].key = cache[1].pack_id]
            /\ UNCHANGED <<ret, lock>>
    /\ UNCHANGED <<disk, cache, active, active_file, call, uses, evicted, hist, fnVars>>

\* self._cache.pop(key)
LfdPop(t) ==
    /\ pc[t] = "lfd_pop"
    /\ IF loc[t].key \in Keys(cache)
       THEN /\ cache' = DictPop(cache, loc[t].key)
            /\ evicted' = [victim |-> loc[t].key,
                           lru |-> IF uses = <<>> THEN NoPack ELSE Head(uses),
                           reload |-> call[t].pack_id \in Keys(cache) \ {loc[t].key}]
            /\ uses' = SelectSeq(uses, LAMBDA q : q # loc[t].key)
            /\ Goto(t, "lfd_put")
            /\ UNCHANGED <<ret, lock, loc>>
       ELSE /\ Raise(t, "KeyError")
            /\ UNCHANGED <<cache, evicted, uses>>
    /\ UNCHANGED <<disk, active, active_file, call, hist, fnVars>>

\* self._cache[pack_id] = lp; return lp
LfdPut(t) ==
    /\ pc[t] = "lfd_put"
    /\ cache' = DictSet(cache, call[t].pack_id, loc[t].lp)
    /\ uses' = Touch(uses, call[t].pack_id)
    /\ IF call[t].op = "activate"
       THEN Goto(t, "act") /\ UNCHANGED <<ret, lock, loc>>
       ELSE Return(t, loc[t].lp)
    /\ UNCHANGED <<disk, active, active_file, call, evicted, hist, fnVars>>

(* ---- AxisRegistry.activate, after its _load_from_disk ---- *)
\* with self._lock: self._active = pack_id; write active.json.  return lp
Act(t) ==
    /\ pc[t] = "act"
    /\ CanAcquire(t)
    /\ active' = call[t].pack_id
    /\ active_file' = [pack_id |-> call[t].pack_id, hash |-> loc[t].lp.hash]
    /\ ret' = [ret EXCEPT ![t] = RPack(loc[t].lp)]
    /\ loc' = [loc EXCEPT ![t] = NoLoc]
    /\ Goto(t, "done")
    /\ UNCHANGED <<disk, cache, lock, call, uses, evicted, hist, fnVars>>

(* ---- AxisRegistry.get_active ---- *)
\* with self._lock: if self._active is None: return None; self.load(self._active)
Ga(t) ==
    /\ pc[t] = "ga"
    /\ CanAcquire(t)
    /\ IF active = NoPack
       THEN /\ ret' = [ret EXCEPT ![t] = RNone]
            /\ Goto(t, "done")
            /\ UNCHANGED <<call, lock>>
       ELSE /\ call' = [call EXCEPT ![t].pack_id = active]
            /\ lock' = Acquire(t)
            /\ Goto(t, "ld")
            /\ UNCHANGED ret
    /\ UNCHANGED <<disk, cache, active, active_file, loc, uses, evicted, hist, fnVars>>

ThreadStep(t) ==
    \/ \E p \in Packs : CallLoad(t, p)
    \/ \E p \in Packs : CallActivate(t, p)
    \/ CallGetActive(t)
    \/ Ld(t) \/ LdHit(t)
    \/ LfdRead(t) \/ LfdLen(t) \/ LfdIter(t) \/ LfdPop(t) \/ LfdPut(t)
    \/ Act(t)
    \/ Ga(t)
    \/ Done(t)

\* A thread starts at most n calls in all.
Within(t, n) == pc[t] = "idle" => ncalls < n

\* Threads of the server call the registry concurrently.
Init == RegInit /\ FnIdle
Next == \E t \in Threads : Within(t, MaxCalls) /\ ThreadStep(t)
Spec == Init /\ [][Next]_vars

\* One caller, one call after the other; the artifacts do not change.
Caller == CHOOSE t \in Threads : \A o \in Threads : t <= o
SeqNext == Within(Caller, MaxSeqCalls) /\ ThreadStep(Caller)
SpecSeq == Init /\ [][SeqNext]_vars

\* One caller, while an outside process changes the artifacts.
TamperNext ==
    \/ Within(Caller, MaxCalls) /\ ThreadStep(Caller)
    \/ \E p \in Packs : Tamper(p)
SpecTamper == Init /\ [][TamperNext]_vars

(***************************************************************************)
(* Claims about AxisRegistry                                               *)
(***************************************************************************)
CacheAccess == {"ld_hit", "lfd_read", "lfd_len", "lfd_iter", "lfd_pop", "lfd_put"}

\* C1: every read and write of the cache and of the active pointer, the disk
\* load and cache refresh of activate included, is made by a thread that
\* holds the registry lock.
C1_AccessUnderLock ==
    \A t \in Threads : pc[t] \in CacheAccess => lock.owner = t

\* C2: a call that starts after the artifacts of a pack stopped passing
\* validation never returns that pack (the copy cached before the change).
C2_TamperingCaught ==
    \A t \in Threads :
        (pc[t] = "done" /\ ret[t].kind = "pack" /\ t0[t] = ntamper)
            => ReadPack(ret[t].lp.pack_id, disk[ret[t].lp.pack_id]).kind = "pack"

\* C3: the cache never holds more than 4 packs.
C3_CacheBounded == Len(cache) <= CacheSize

\* C4: an eviction removes the least recently used pack (hits of load and
\* get_active count as uses), and no eviction happens when the pack being
\* loaded is already in the cache.
C4_EvictsLeastRecentlyUsed ==
    evicted # NoEvict => (evicted.victim = evicted.lru /\ ~evicted.reload)

\* C5: with unchanged artifacts every call returns the pack, None or error
\* that the registry with an unbounded cache returns for the same call.
C5_EvictionUnobservable ==
    \A t \in Threads : pc[t] = "done" => ret[t] = uret[t]

\* C5 witness: get_active returns the active pack by reloading it after it
\* was evicted (the reload itself evicts another pack).
C5_Witness ==
    /\ pc[Caller] = "done"
    /\ call[Caller].op = "get_active"
    /\ ret[Caller].kind = "pack"
    /\ ret[Caller].lp.pack_id = active
    /\ evicted # NoEvict
    /\ ucache[evicted.victim] # NoLP

(***************************************************************************)
(* Numbers and arrays                                                      *)
(* A float is a fixed-point integer; each section states its unit.  An     *)
(* ndarray is [shape, v] with v its rows: one row holding the number       *)
(* (0-d), one row holding the entries (1-d) or the rows (2-d).  A function *)
(* returns Ok(value) or Exc(exception name).                               *)
(***************************************************************************)
Ok(v) == [ok |-> TRUE, err |-> "", val |-> v]
Exc(e) == [ok |-> FALSE, err |-> e, val |-> <<>>]

Arr0(x) == [shape |-> <<>>, v |-> <<<<x>>>>]
Arr1(xs) == [shape |-> <<Len(xs)>>, v |-> <<xs>>]
Arr2(n, m, rows) == [shape |-> <<n, m>>, v |-> rows]
ndim(a) == Len(a.shape)
\* the number of a 0-d array, the entries of a 1-d array
Scalar(a) == a.v[1][1]
Vec(a) == a.v[1]

RECURSIVE SumSeq(_)
SumSeq(xs) == IF xs = <<>> THEN 0 ELSE Head(xs) + SumSeq(Tail(xs))

RECURSIVE SumOver(_, _)
\* sum of w over the 0-based indices in A
SumOver(A, w) ==
    IF A = {} THEN 0
    ELSE LET j == CHOOSE i \in A : TRUE IN w[j + 1] + SumOver(A \ {j}, w)

\* np.dot of two 1-d sequences of equal length
Dot(a, b) == SumSeq([i \in 1 .. Len(a) |-> a[i] * b[i]])

(***************************************************************************)
(* Choquet integral (axis/choquet.py).  Unit of a utility: 1e-12, so that  *)
(* the tie tolerance 1e-12 of the membership test is one unit.             *)
(***************************************************************************)
Eps == 1

\* mu.get(A, 0.0)
MuGet(mu, A) == IF A \in DOMAIN mu THEN mu[A] ELSE 0

\* np.argsort(x_arr): 0-based indices in ascending order of value
RECURSIVE Argsort(_, _)
Argsort(x, n) ==
    IF n = 0 THEN <<>>
    ELSE LET o == Argsort(x, n - 1)
             pos == Cardinality({i \in 1 .. Len(o) : x[o[i] + 1] <= x[n]})
         IN  SubSeq(o, 1, pos) \o <<n - 1>> \o SubSeq(o, pos + 1, Len(o))

\* mask = x_arr >= xi - 1e-12; A_i = frozenset(np.nonzero(mask)[0])
Mask(x, xi) == {j \in 0 .. Len(x) - 1 : x[j + 1] >= xi - Eps}

\* the loop  for i in range(k): total += (xi - prev) * mu_val; prev = xi
RECURSIVE ChoquetLoop(_, _, _, _, _, _)
ChoquetLoop(x, mu, x_sorted, i, prev, total) ==
    IF i >= Len(x) THEN total
    ELSE LET xi == x_sorted[i + 1]
             mu_val == MuGet(mu, Mask(x, xi))
         IN  ChoquetLoop(x, mu, x_sorted, i + 1, xi, total + (xi - prev) * mu_val)

\* choquet_integral with mu[A_i] in place of mu.get(A_i, 0.0)
ChoquetStrictLookup(x, mu) ==
    LET order == Argsort(x, Len(x))
        x_sorted == [i \in 1 .. Len(x) |-> x[order[i] + 1]]
    IN  IF \E i \in 1 .. Len(x) : Mask(x, x_sorted[i]) \notin DOMAIN mu
        THEN Exc("KeyError")
        ELSE Ok(ChoquetLoop(x, mu, x_sorted, 0, 0, 0))

choquet_integral(x, mu) ==
    LET k == Len(x)
        order == Argsort(x, k)
        x_sorted == [i \in 1 .. k |-> x[order[i] + 1]]
    IN  IF k = 0 THEN Ok(0)
        ELSE Ok(ChoquetLoop(x, mu, x_sorted, 0, 0, 0))

(***************************************************************************)
(* Resonance (metrics/resonance.py).  Vectors, coordinates and utilities   *)
(* are small integers, on which float32 arithmetic is exact.               *)
(***************************************************************************)
\* project that keeps only the first d features of X instead of raising
ProjectTruncating(X, pack) ==
    LET d == pack.Q.shape[1]
        k == pack.Q.shape[2]
        Feat(x, r) == IF r <= Len(x) THEN x[r] ELSE 0
        Coord(x, c) == SumSeq([r \in 1 .. d |-> pack.Q.v[r][c] * Feat(x, r)])
    IN  IF ndim(X) = 1
        THEN Ok(Arr1([c \in 1 .. k |-> Coord(Vec(X), c)]))
        ELSE IF ndim(X) = 2
        THEN Ok(Arr2(X.shape[1], k,
                     [i \in 1 .. X.shape[1] |-> [c \in 1 .. k |-> Coord(X.v[i], c)]]))
        ELSE Exc("ValueError")

project(X, pack) ==
    LET d == pack.Q.shape[1]
        k == pack.Q.shape[2]
        Coord(x, c) == SumSeq([r \in 1 .. d |-> pack.Q.v[r][c] * x[r]])
    IN  IF ndim(X) = 1
        THEN IF X.shape[1] # d THEN Exc("ValueError")
             ELSE Ok(Arr1([c \in 1 .. k |-> Coord(Vec(X), c)]))
        ELSE IF ndim(X) = 2
        THEN IF X.shape[2] # d THEN Exc("ValueError")
             ELSE Ok(Arr2(X.shape[1], k,
                          [i \in 1 .. X.shape[1] |-> [c \in 1 .. k |-> Coord(X.v[i], c)]]))
        ELSE Exc("ValueError")

utilities(coords, pack) ==
    LET lam == Vec(pack.lambda_)
        beta == Vec(pack.beta)
        Row(y) == [c \in 1 .. Len(y) |-> lam[c] * y[c] + beta[c]]
    IN  IF ndim(coords) = 1 THEN Ok(Arr1(Row(Vec(coords))))
        ELSE IF ndim(coords) = 2
        THEN Ok(Arr2(coords.shape[1], coords.shape[2],
                     [i \in 1 .. coords.shape[1] |-> Row(coords.v[i])]))
        ELSE Exc("ValueError")

\* aggregate that always takes the linear branch
AggregateIgnoringMu(u, pack) ==
    LET w == Vec(pack.weights)
    IN  IF ndim(u) = 1
        THEN IF Len(Vec(u)) # Len(w) THEN Exc("ValueError")
             ELSE Ok(Arr0(Dot(Vec(u), w)))
        ELSE IF ndim(u) = 2
        THEN IF u.shape[2] # Len(w) THEN Exc("ValueError")
             ELSE Ok(Arr1([i \in 1 .. u.shape[1] |-> Dot(u.v[i], w)]))
        ELSE Exc("ValueError")

aggregate(u, pack) ==
    LET w == Vec(pack.weights)
    IN  IF ndim(u) = 1
        THEN IF DOMAIN pack.mu # {}
             THEN Ok(Arr0(choquet_integral(Vec(u), pack.mu).val))
             ELSE IF Len(Vec(u)) # Len(w) THEN Exc("ValueError")
             ELSE Ok(Arr0(Dot(Vec(u), w)))
        ELSE IF ndim(u) = 2
        THEN IF DOMAIN pack.mu # {}
             THEN Ok(Arr1([i \in 1 .. u.shape[1] |-> choquet_integral(u.v[i], pack.mu).val]))
             ELSE IF u.shape[2] # Len(w) THEN Exc("ValueError")
             ELSE Ok(Arr1([i \in 1 .. u.shape[1] |-> Dot(u.v[i], w)]))
        ELSE Exc("ValueError")

resonance(X, pack) ==
    LET coords == project(X, pack)
        u == utilities(coords.val, pack)
    IN  IF ~coords.ok THEN coords
        ELSE IF ~u.ok THEN u
        ELSE aggregate(u.val, pack)

(***************************************************************************)
(* SkipMesh (coherence/skipmesh.py)                                        *)
(***************************************************************************)
Min(a, b) == IF a <= b THEN a ELSE b

\* for i in range(n_tokens): for j in range(i + 1, min(n_tokens, i + 1 + max_skip))
RECURSIVE SkipPairsFrom(_, _, _)
SkipPairsFrom(i, n_tokens, max_skip) ==
    IF i >= n_tokens THEN <<>>
    ELSE LET hi == Min(n_tokens, i + 1 + max_skip)
             row == [t \in 1 .. (IF hi > i + 1 THEN hi - (i + 1) ELSE 0) |-> <<i, i + t>>]
         IN  row \o SkipPairsFrom(i + 1, n_tokens, max_skip)

build_skip_pairs(n_tokens, max_skip) == SkipPairsFrom(0, n_tokens, max_skip)

span_skip_pairs(start, end, max_skip) ==
    IF end <= start THEN <<>>
    ELSE LET rel == build_skip_pairs(end - start, max_skip)
         IN  [t \in 1 .. Len(rel) |-> <<start + rel[t][1], start + rel[t][2]>>]

\* token_vectors[i] for i >= 0
Index(a, i) ==
    IF ndim(a) = 0 THEN Exc("IndexError")
    ELSE IF i >= a.shape[1] THEN Exc("IndexError")
    ELSE IF ndim(a) = 1 THEN Ok(Arr0(Vec(a)[i + 1]))
    ELSE Ok(Arr1(a.v[i + 1]))

\* float(resonance(0.5 * (token_vectors[i] + token_vectors[j]), pack));
\* token values are even, so the half is exact
PairResonance(token_vectors, pack, pair) ==
    LET a == Index(token_vectors, pair[1])
        b == Index(token_vectors, pair[2])
        m == IF ndim(a.val) = 0
             THEN Arr0((Scalar(a.val) + Scalar(b.val)) \div 2)
             ELSE Arr1([r \in 1 .. Len(Vec(a.val)) |->
                           (Vec(a.val)[r] + Vec(b.val)[r]) \div 2])
    IN  IF ~a.ok THEN a
        ELSE IF ~b.ok THEN b
        ELSE resonance(m, pack)

\* the mean of the values is the fraction num / den
span_coherence(token_vectors, pack, start, end, max_skip) ==
    LET pairs == span_skip_pairs(start, end, max_skip)
        vals == [t \in 1 .. Len(pairs) |-> PairResonance(token_vectors, pack, pairs[t])]
        bad == {t \in 1 .. Len(pairs) : ~vals[t].ok}
    IN  IF pairs = <<>> THEN Ok([num |-> 0, den |-> 1])
        ELSE IF bad # {} THEN vals[CHOOSE t \in bad : \A o \in bad : t <= o]
        ELSE Ok([num |-> SumSeq([t \in 1 .. Len(pairs) |-> Scalar(vals[t].val)]),
                 den |-> Len(pairs)])

(***************************************************************************)
(* Token and span scoring (coherence/spans.py, pipeline/scoring.py).  The  *)
(* signal of a token is the fraction num / den.                            *)
(***************************************************************************)
token_saliency(token_vectors, pack) == resonance(token_vectors, pack)

compute_token_vectors(X, pack, external_signal) ==
    LET sal == token_saliency(X, pack)
    IN  IF ~sal.ok THEN sal
        ELSE Ok([vectors |-> X, saliency |-> sal.val, signal |-> external_signal])

\* the enumeration with the inner range one short: range(i + 1, min(n, i + max_len))
RECURSIVE SpansFromShort(_, _, _)
SpansFromShort(i, n, max_len) ==
    IF i >= n THEN <<>>
    ELSE LET hi == Min(n, i + max_len)
             row == [t \in 1 .. (IF hi > i + 1 THEN hi - (i + 1) ELSE 0) |-> <<i, i + t>>]
         IN  row \o SpansFromShort(i + 1, n, max_len)

\* for i in range(n): for j in range(i + 1, min(n, i + max_len) + 1)
RECURSIVE SpansFrom(_, _, _)
SpansFrom(i, n, max_len) ==
    IF i >= n THEN <<>>
    ELSE LET hi == Min(n, i + max_len) + 1
             row == [t \in 1 .. (IF hi > i + 1 THEN hi - (i + 1) ELSE 0) |-> <<i, i + t>>]
         IN  row \o SpansFrom(i + 1, n, max_len)

compute_span_vectors(X, pack, max_len, max_skip) ==
    LET n == IF ndim(X) = 0 THEN 0 ELSE X.shape[1]
        spans == SpansFrom(0, n, max_len)
        coh == [t \in 1 .. Len(spans) |->
                   span_coherence(X, pack, spans[t][1], spans[t][2], max_skip)]
        bad == {t \in 1 .. Len(spans) : ~coh[t].ok}
    IN  IF ndim(X) = 0 THEN Exc("IndexError")
        ELSE IF bad # {} THEN coh[CHOOSE t \in bad : \A o \in bad : t <= o]
        ELSE Ok([spans |-> spans, coherence |-> [t \in 1 .. Len(spans) |-> coh[t].val]])

(***************************************************************************)
(* Graph substrate (coherence/substrate.py) with weight = "uniform".  A    *)
(* matrix is a sequence of rows.                                           *)
(***************************************************************************)
build_skip_adjacency(n, max_skip) ==
    [i \in 1 .. n |-> [j \in 1 .. n |->
        IF i # j /\ (IF i < j THEN j - i ELSE i - j) <= max_skip THEN 1 ELSE 0]]

laplacian(W) ==
    LET n == Len(W)
        deg == [i \in 1 .. n |-> SumSeq(W[i])]
        L == [i \in 1 .. n |-> [j \in 1 .. n |-> (IF i = j THEN deg[i] ELSE 0) - W[i][j]]]
    IN  [i \in 1 .. n |-> [j \in 1 .. n |-> (L[i][j] + L[j][i]) \div 2]]

build_graph(n, max_skip) ==
    [W |-> build_skip_adjacency(n, max_skip),
     L |-> laplacian(build_skip_adjacency(n, max_skip))]

(***************************************************************************)
(* Heat-kernel diffusion (coherence/diffusion.py).  tau is a number of     *)
(* steps of 0.05 and exp(-0.05 * m) is the fixed-point number ExpNeg(m) /  *)
(* ExpOne.  The decomposition L = U diag(lam) U^T is held as the distinct  *)
(* eigenvalues with their spectral projectors, so that U diag(g) U^T is    *)
(* the sum of g(lam) * P_lam; a projector is an integer matrix over the    *)
(* common denominator den.  A diffused signal is the fraction num / den.   *)
(***************************************************************************)
ExpOne == 100
ExpStep == 95

\* a kernel that grows with tau
ExpGrowing(m) == ExpOne + 5 * m

RECURSIVE ExpNeg(_)
ExpNeg(m) == IF m <= 0 THEN ExpOne ELSE (ExpNeg(m - 1) * ExpStep) \div ExpOne

MatVec(M, x) == [i \in 1 .. Len(M) |-> SumSeq([j \in 1 .. Len(x) |-> M[i][j] * x[j]])]

MatMul(A, B) ==
    [i \in 1 .. Len(A) |-> [j \in 1 .. Len(A) |->
        SumSeq([t \in 1 .. Len(A) |-> A[i][t] * B[t][j]])]]

\* L - mu * I
Shift(L, mu) ==
    [i \in 1 .. Len(L) |-> [j \in 1 .. Len(L) |-> L[i][j] - (IF i = j THEN mu ELSE 0)]]

\* M without its first row and its j-th column
Minor(M, j) ==
    [i \in 1 .. Len(M) - 1 |-> [c \in 1 .. Len(M) - 1 |->
        M[i + 1][IF c < j THEN c ELSE c + 1]]]

RECURSIVE Det(_)
Det(M) ==
    IF Len(M) = 0 THEN 1
    ELSE SumSeq([j \in 1 .. Len(M) |->
                    (IF j % 2 = 1 THEN 1 ELSE -1) * M[1][j] * Det(Minor(M, j))])

\* the eigenvalues of a Laplacian lie in [0, 2 * (n - 1)]
Eigenvalues(L) == {lam \in 0 .. 2 * Len(L) : Det(Shift(L, lam)) = 0}

\* product of (L - mu * I) over mu in S, and of (lam - mu)
RECURSIVE ShiftProduct(_, _)
ShiftProduct(L, S) ==
    IF S = {} THEN Shift(L, 0)
    ELSE LET mu == CHOOSE m \in S : TRUE
         IN  IF S = {mu} THEN Shift(L, mu)
             ELSE MatMul(Shift(L, mu), ShiftProduct(L, S \ {mu}))

RECURSIVE GapProduct(_, _)
GapProduct(lam, S) ==
    IF S = {} THEN 1
    ELSE LET mu == CHOOSE m \in S : TRUE
         IN  (lam - mu) * GapProduct(lam, S \ {mu})

RECURSIVE Gcd(_, _)
Gcd(a, b) == IF b = 0 THEN a ELSE Gcd(b, a % b)

RECURSIVE LcmOver(_)
LcmOver(S) ==
    IF S = {} THEN 1
    ELSE LET a == CHOOSE m \in S : TRUE
             r == LcmOver(S \ {a})
         IN  (a * r) \div Gcd(a, r)

\* the t-th smallest element of a set of numbers
RECURSIVE Sorted(_)
Sorted(S) ==
    IF S = {} THEN <<>>
    ELSE LET lo == CHOOSE m \in S : \A o \in S : m <= o
         IN  <<lo>> \o Sorted(S \ {lo})

\* np.linalg.eigh(L) as eigenvalues (ascending, distinct) and projectors:
\* P_lam = prod over mu # lam of (L - mu I) / (lam - mu)
_eigh(L) ==
    LET E == Eigenvalues(L)
        Gap(lam) == LET g == GapProduct(lam, E \ {lam}) IN IF g < 0 THEN 0 - g ELSE g
        Sign(lam) == IF GapProduct(lam, E \ {lam}) < 0 THEN -1 ELSE 1
        den == LcmOver({Gap(lam) : lam \in E})
        Proj(lam) ==
            LET N == IF E = {lam}
                     THEN [i \in 1 .. Len(L) |-> [j \in 1 .. Len(L) |-> IF i = j THEN 1 ELSE 0]]
                     ELSE ShiftProduct(L, E \ {lam})
            IN  [i \in 1 .. Len(L) |-> [j \in 1 .. Len(L) |->
                    Sign(lam) * N[i][j] * (den \div Gap(lam))]]
        lams == Sorted(E)
    IN  [lam |-> lams, P |-> [t \in 1 .. Len(lams) |-> Proj(lams[t])], den |-> den]

\* every eigenvalue of L is one of the integers found: the product of
\* (L - lam I) over them is the zero matrix
IntegralSpectrum(L) ==
    LET Z == ShiftProduct(L, Eigenvalues(L))
    IN  /\ Len(L) >= 1
        /\ \A i \in 1 .. Len(L) : \A j \in 1 .. Len(L) : Z[i][j] = 0

\* U @ (exp(-tau * lam) * (U.T @ x)) for one signal x of length n
HeatKernelColumn(e, x, tau) ==
    [i \in 1 .. Len(x) |->
        SumSeq([t \in 1 .. Len(e.lam) |-> ExpNeg(tau * e.lam[t]) * MatVec(e.P[t], x)[i]])]

_apply_heat_kernel(e, X, tau, n) ==
    IF ndim(X) = 1
    THEN IF X.shape[1] # n THEN Exc("ValueError")
         ELSE Ok([num |-> Arr1(HeatKernelColumn(e, Vec(X), tau)), den |-> ExpOne * e.den])
    ELSE IF ndim(X) = 2
    THEN IF X.shape[1] # n THEN Exc("ValueError")
         ELSE LET col(c) == [i \in 1 .. n |-> X.v[i][c]]
                  Y(c) == HeatKernelColumn(e, col(c), tau)
              IN  Ok([num |-> Arr2(n, X.shape[2],
                                   [i \in 1 .. n |-> [c \in 1 .. X.shape[2] |-> Y(c)[i]]]),
                      den |-> ExpOne * e.den])
    ELSE Exc("ValueError")

\* tau a float
diffuse(L, X, tau) == _apply_heat_kernel(_eigh(L), X, tau, Len(L))

\* tau a list or tuple: the outputs stacked along a new first axis
DiffuseStacked(L, X, taus) ==
    LET e == _eigh(L)
        outs == [t \in 1 .. Len(taus) |-> _apply_heat_kernel(e, X, taus[t], Len(L))]
    IN  IF taus = <<>> THEN Exc("ValueError")
        ELSE IF ~outs[1].ok THEN outs[1]
        ELSE Ok([num |-> [t \in 1 .. Len(taus) |-> outs[t].val.num],
                 den |-> outs[1].val.den])

(***************************************************************************)
(* Frame extraction (frames/srl_lite.py) and frame embeddings              *)
(* (frames/vectorize.py), without token texts and without debug output.    *)
(* A threshold arg_band * pred_sal is the fraction num / den, a frame id   *)
(* "f{p}" is held as the number p, and roles is a function from role names *)
(* to spans.                                                               *)
(***************************************************************************)
\* the peaks that are above both neighbours
LocalMaximaStrict(x) ==
    LET n == Len(x)
        IsPeak(i) == /\ (i - 1 >= 0 => x[i + 1] > x[i])
                     /\ (i + 1 < n => x[i + 1] > x[i + 2])
    IN  Sorted({i \in 0 .. n - 1 : IsPeak(i)})

\* indices i (from 0) of s with s[i] >= both neighbours, a missing
\* neighbour counting as -inf
_local_maxima(x) ==
    LET n == Len(x)
        IsPeak(i) == /\ (i - 1 >= 0 => x[i + 1] >= x[i])
                     /\ (i + 1 < n => x[i + 1] >= x[i + 2])
    IN  Sorted({i \in 0 .. n - 1 : IsPeak(i)})

\* the subsequence of xs whose elements are in S
RECURSIVE Filter(_, _)
Filter(xs, S) ==
    IF xs = <<>> THEN <<>>
    ELSE (IF Head(xs) \in S THEN <<Head(xs)>> ELSE <<>>) \o Filter(Tail(xs), S)

detect_predicates(token_vectors, pack, saliency_thresh) ==
    LET s == token_saliency(token_vectors, pack)
    IN  IF ~s.ok THEN s
        ELSE IF ndim(s.val) = 0 THEN Exc("IndexError")
        ELSE LET x == Vec(s.val)
             IN  Ok(Filter(_local_maxima(x),
                           {i \in 0 .. Len(x) - 1 : x[i + 1] >= saliency_thresh}))

\* v >= thresh for thresh = num / den
AtLeast(v, thresh) == v * thresh.den >= thresh.num

\* while start - 1 >= 0 and (center - (start - 1)) < max_len and s[start - 1] >= thresh
RECURSIVE ExpandStart(_, _, _, _, _)
ExpandStart(s, center, start, max_len, thresh) ==
    IF start - 1 >= 0 /\ (center - (start - 1)) < max_len /\ AtLeast(s[start], thresh)
    THEN ExpandStart(s, center, start - 1, max_len, thresh)
    ELSE start

\* while end < n and ((end - 1) - center) < max_len and s[end] >= thresh
RECURSIVE ExpandEnd(_, _, _, _, _)
ExpandEnd(s, center, end, max_len, thresh) ==
    IF end < Len(s) /\ ((end - 1) - center) < max_len /\ AtLeast(s[end + 1], thresh)
    THEN ExpandEnd(s, center, end + 1, max_len, thresh)
    ELSE end

_expand_arg(s, center, max_len, thresh) ==
    <<ExpandStart(s, center, center, max_len, thresh),
      ExpandEnd(s, center, center + 1, max_len, thresh)>>

Max(a, b) == IF a >= b THEN a ELSE b

\* sum of s[i] for i in [span[0], span[1])
SpanSum(s, span) == SumSeq([t \in 1 .. span[2] - span[1] |-> s[span[1] + t]])

\* the roles with the right side as agent when the means are equal
RolesRightOnTie(s, left, right, role_mode) ==
    LET llen == left[2] - left[1]
        rlen == right[2] - right[1]
        l_gt_r == IF llen <= 0 THEN FALSE
                  ELSE IF rlen <= 0 THEN TRUE
                  ELSE SpanSum(s, left) * rlen > SpanSum(s, right) * llen
        Entry(name, span) == IF span[2] - span[1] > 0 THEN name :> span ELSE <<>>
    IN  IF role_mode = "agent_patient"
        THEN IF llen > 0 \/ rlen > 0
             THEN IF l_gt_r
                  THEN Entry("agent", left) @@ Entry("patient", right)
                  ELSE Entry("agent", right) @@ Entry("patient", left)
             ELSE <<>>
        ELSE Entry("arg_left", left) @@ Entry("arg_right", right)

\* the roles dictionary of one frame
Roles(s, left, right, role_mode) ==
    LET llen == left[2] - left[1]
        rlen == right[2] - right[1]
        \* l_mean >= r_mean, an empty side having mean -inf
        l_geq_r == IF rlen <= 0 THEN TRUE
                   ELSE IF llen <= 0 THEN FALSE
                   ELSE SpanSum(s, left) * rlen >= SpanSum(s, right) * llen
        Entry(name, span) == IF span[2] - span[1] > 0 THEN name :> span ELSE <<>>
    IN  IF role_mode = "agent_patient"
        THEN IF llen > 0 \/ rlen > 0
             THEN IF l_geq_r
                  THEN Entry("agent", left) @@ Entry("patient", right)
                  ELSE Entry("agent", right) @@ Entry("patient", left)
             ELSE <<>>
        ELSE Entry("arg_left", left) @@ Entry("arg_right", right)

\* the frames around the peaks preds of the saliency s
FramesAround(s, preds, arg_band, max_arg_len, role_mode) ==
    [t \in 1 .. Len(preds) |->
        LET p == preds[t]
            pred_sal == s[p + 1]
            arg_thresh == [num |-> arg_band.num * pred_sal, den |-> arg_band.den]
            left_center == Max(0, p - 1)
            right_center == Min(Len(s) - 1, p + 1)
            left == _expand_arg(s, left_center, max_arg_len, arg_thresh)
            right == _expand_arg(s, right_center, max_arg_len, arg_thresh)
        IN  [id |-> p, predicate |-> <<p, p + 1>>,
             roles |-> Roles(s, left, right, role_mode), score |-> pred_sal]]

build_frames(token_vectors, pack, saliency_thresh, arg_band, max_arg_len, role_mode) ==
    LET s == token_saliency(token_vectors, pack)
        preds == detect_predicates(token_vectors, pack, saliency_thresh)
    IN  IF ~s.ok THEN s
        ELSE IF ~preds.ok THEN preds
        ELSE Ok(FramesAround(Vec(s.val), preds.val, arg_band, max_arg_len, role_mode))

\* mean of the rows of token_vectors in [s, e) as column sums over a count,
\* zeros for an empty span
span_mean(token_vectors, span) ==
    LET d == token_vectors.shape[2]
    IN  IF span[2] <= span[1] THEN [num |-> [c \in 1 .. d |-> 0], den |-> 1]
        ELSE [num |-> [c \in 1 .. d |->
                          SumSeq([t \in 1 .. span[2] - span[1] |->
                                     token_vectors.v[span[1] + t][c]])],
              den |-> span[2] - span[1]]

\* the means of the predicate, arg_left and arg_right spans, in this order
frame_embedding(token_vectors, frame) ==
    LET Role(name) == IF name \in DOMAIN frame.roles THEN frame.roles[name] ELSE <<0, 0>>
    IN  <<span_mean(token_vectors, frame.predicate),
          span_mean(token_vectors, Role("arg_left")),
          span_mean(token_vectors, Role("arg_right"))>>

compute_frame_vectors(token_vectors, frames) ==
    IF ndim(token_vectors) < 2 THEN Exc("IndexError")
    ELSE Ok([shape |-> <<Len(frames), 3 * token_vectors.shape[2]>>,
             rows |-> [t \in 1 .. Len(frames) |-> frame_embedding(token_vectors, frames[t])]])

(***************************************************************************)
(* Orchestrator (pipeline/orchestrator.py) with return_role_projections,   *)
(* debug_frames and the detectors off.  diffusion_tau = None is NoTau.     *)
(***************************************************************************)
NoTau == -1
Half == [num |-> 1, den |-> 2]

run_pipeline_from_vectors(token_vectors, pack, params) ==
    LET X == token_vectors
        sal == token_saliency(X, pack)
        diffusing == params.diffusion_tau # NoTau /\ X.shape[1] >= 2
        token_signal == IF diffusing
                        THEN diffuse(build_graph(X.shape[1], params.max_skip).L,
                                     sal.val, params.diffusion_tau)
                        ELSE Ok([num |-> sal.val, den |-> 1])
        tokens_out == compute_token_vectors(X, pack, token_signal.val)
        spans_out == compute_span_vectors(X, pack, params.max_span_len, params.max_skip)
        frames == build_frames(X, pack, 0, Half, 2, params.role_mode)
        frame_vecs == compute_frame_vectors(X, frames.val)
    IN  IF ~sal.ok THEN sal
        ELSE IF ~token_signal.ok THEN token_signal
        ELSE IF ~tokens_out.ok THEN tokens_out
        ELSE IF ~spans_out.ok THEN spans_out
        ELSE IF ~frames.ok THEN frames
        ELSE IF ~frame_vecs.ok THEN frame_vecs
        ELSE Ok([tokens |-> tokens_out.val, spans |-> spans_out.val,
                 frames |-> frames.val, frame_vectors |-> frame_vecs.val])

(***************************************************************************)
(* AxisPack (axis/pack.py).  A number in Q, lambda_, weights or mu stands  *)
(* for that number / One, and an entry of Q^T Q is in units of 1 / One^2.  *)
(* The float32 values are the even numbers of this grid, the float64       *)
(* values all its numbers.                                                 *)
(***************************************************************************)
One == 10000
\* atol = 1e-5 and the default rtol = 1e-5 of np.allclose, in units of 1 / One^2
Atol == (One * One) \div 100000
Rtol(b) == (IF b < 0 THEN 0 - b ELSE b) \div 100000

Abs(x) == IF x < 0 THEN 0 - x ELSE x

\* .astype(np.float32) / dtype=np.float32: round to nearest, ties to even
F32(x) ==
    IF x % 2 = 0 THEN x
    ELSE IF ((x - 1) \div 2) % 2 = 0 THEN x - 1 ELSE x + 1

F32Arr(a) ==
    [a EXCEPT !.v = [i \in 1 .. Len(a.v) |-> [j \in 1 .. Len(a.v[i]) |-> F32(a.v[i][j])]]]

\* ndarray.tolist(): nested lists; nd is the nesting depth, and items holds
\* the number (nd = 0) or the flat list (nd = 1) as its one row
tolist(a) == [nd |-> ndim(a), items |-> a.v]

\* np.array(list, dtype=np.float32): the shape is inferred from the nesting
NpArray(l) ==
    IF l.nd = 0 THEN Ok(F32Arr(Arr0(l.items[1][1])))
    ELSE IF l.nd = 1 THEN Ok(F32Arr(Arr1(l.items[1])))
    ELSE IF l.items = <<>> THEN Ok(Arr1(<<>>))
    ELSE IF \E i \in 1 .. Len(l.items) : Len(l.items[i]) # Len(l.items[1])
    THEN Exc("ValueError")
    ELSE Ok(F32Arr(Arr2(Len(l.items), Len(l.items[1]), l.items)))

\* Q.T @ Q for a 2-d Q
QtQ(Q) ==
    [i \in 1 .. Q.shape[2] |-> [j \in 1 .. Q.shape[2] |->
        SumSeq([r \in 1 .. Q.shape[1] |-> Q.v[r][i] * Q.v[r][j]])]]

eye(k) == [i \in 1 .. k |-> [j \in 1 .. k |-> IF i = j THEN One * One ELSE 0]]

\* np.allclose(a, b, atol=1e-5): |a - b| <= atol + rtol * |b| elementwise
allclose(a, b) ==
    \A i \in 1 .. Len(a) : \A j \in 1 .. Len(a[i]) :
        Abs(a[i][j] - b[i][j]) <= Atol + Rtol(b[i][j])

\* line 126 takes np.max of the k x k off-diagonal part, which raises
\* ValueError for k = 0
validate(pack) ==
    LET k == Len(pack.names)
    IN  IF ndim(pack.Q) # 2 THEN Exc("AssertionError")
        ELSE IF pack.Q.shape[2] # k THEN Exc("AssertionError")
        ELSE IF \E arr \in {pack.lambda_, pack.beta, pack.weights} : arr.shape # <<k>>
        THEN Exc("AssertionError")
        ELSE IF k = 0 THEN Exc("ValueError")
        ELSE IF ~allclose(QtQ(pack.Q), eye(k)) THEN Exc("ValueError")
        ELSE Ok(<<>>)

\* ",".join(str(i) for i in sorted(kset)): the key is the ascending index list
RECURSIVE SortedKey(_)
SortedKey(kset) ==
    IF kset = {} THEN <<>>
    ELSE LET lo == CHOOSE i \in kset : \A o \in kset : i <= o
         IN  <<lo>> \o SortedKey(kset \ {lo})

_mu_to_json(mu) ==
    LET keys == {SortedKey(kset) : kset \in DOMAIN mu}
    IN  [key \in keys |-> mu[{key[i] : i \in 1 .. Len(key)}]]

\* a blank key is skipped
_mu_from_json(d) ==
    LET sets == {{key[i] : i \in 1 .. Len(key)} : key \in (DOMAIN d) \ {<<>>}}
    IN  [idx \in sets |-> d[SortedKey(idx)]]

to_json_obj(pack) ==
    LET v == validate(pack)
    IN  IF ~v.ok THEN v
        ELSE Ok([names |-> pack.names,
                 Q |-> tolist(F32Arr(pack.Q)),
                 lambda |-> tolist(pack.lambda_),
                 beta |-> tolist(pack.beta),
                 weights |-> tolist(pack.weights),
                 mu |-> _mu_to_json(pack.mu),
                 meta |-> pack.meta])

\* [v] * n as a JSON list
Repeat(v, n) == [nd |-> 1, items |-> <<[i \in 1 .. n |-> v]>>]

\* obj.get(key, default)
Get(obj, key, default) == IF key \in DOMAIN obj THEN obj[key] ELSE default

\* lines 148-155 of from_json_obj: the pack built from the object
FromJsonFields(obj) ==
    LET names == obj["names"]
        n == Len(names)
        Q == NpArray(obj["Q"])
        lambda_ == NpArray(Get(obj, "lambda", Repeat(One, n)))
        beta == NpArray(Get(obj, "beta", Repeat(0, n)))
        weights == NpArray(Get(obj, "weights", Repeat(One \div (IF n > 1 THEN n ELSE 1), n)))
        mu == _mu_from_json(Get(obj, "mu", <<>>))
        meta == Get(obj, "meta", <<>>)
    IN  IF "names" \notin DOMAIN obj \/ "Q" \notin DOMAIN obj THEN Exc("KeyError")
        ELSE IF ~Q.ok THEN Q
        ELSE IF ~lambda_.ok THEN lambda_
        ELSE IF ~beta.ok THEN beta
        ELSE IF ~weights.ok THEN weights
        ELSE Ok([names |-> names, Q |-> Q.val, lambda_ |-> lambda_.val, beta |-> beta.val,
                 weights |-> weights.val, mu |-> mu, meta |-> meta])

\* from_json_obj that returns the pack without validating it
FromJsonUnvalidated(obj) == FromJsonFields(obj)

from_json_obj(obj) ==
    LET pack == FromJsonFields(obj)
    IN  IF ~pack.ok THEN pack
        ELSE IF ~validate(pack.val).ok THEN validate(pack.val)
        ELSE pack

\* save writes json.dump(to_json_obj()), load reads it back: the file holds
\* the JSON object, whose numbers, lists and keys json reproduces exactly
save(pack) == to_json_obj(pack)

load(file) == from_json_obj(file)

LoadSave(pack) ==
    LET file == save(pack)
    IN  IF ~file.ok THEN file ELSE load(file.val)

(***************************************************************************)
(* Applying the pure functions: the initial state draws an input, one      *)
(* step applies a function to it and records the result.                   *)
(***************************************************************************)
Apply(name, result) ==
    /\ fn = "none"
    /\ fn' = name
    /\ out' = result
    /\ UNCHANGED <<arg, regVars>>

AxisNames == <<"a0", "a1", "a2", "a3", "a4", "a5">>
Names(k) == SubSeq(AxisNames, 1, k)

\* the k x k identity as Q
IdentityQ(k) == Arr2(k, k, [i \in 1 .. k |-> [j \in 1 .. k |-> IF i = j THEN One ELSE 0]])

(***************************************************************************)
(* Choquet aggregation: choquet_integral on utilities and capacities of    *)
(* up to MaxAxes axes, aggregate with linear weights and with the          *)
(* additive capacity of the same weights.                                  *)
(***************************************************************************)
MaxAxes == 2
UVals == {-1, 0, 2}
MuVals == {1, 2}
WVals == {-1, 0, 2}

Subsets(k) == SUBSET (0 .. k - 1)
\* mu(A) = sum of weights[i] for i in A, on every subset
Additive(w) == [A \in Subsets(Len(w)) |-> SumOver(A, w)]

AggregatePack(w, mu) ==
    [names |-> Names(Len(w)), Q |-> IdentityQ(Len(w)),
     lambda_ |-> Arr1([i \in 1 .. Len(w) |-> One]), beta |-> Arr1([i \in 1 .. Len(w) |-> 0]),
     weights |-> Arr1(w), mu |-> mu, meta |-> <<>>]

ChoquetInput(x, mu) == [kind |-> "choquet", x |-> x, mu |-> mu]

AggregateInput(u, w, additive) ==
    [kind |-> "aggregate", u |-> Arr1(u),
     pack |-> AggregatePack(w, IF additive THEN Additive(w) ELSE <<>>)]

ApplyChoquet ==
    /\ arg.kind = "choquet"
    /\ Apply("choquet_integral", choquet_integral(arg.x, arg.mu))

ApplyAggregate ==
    /\ arg.kind = "aggregate"
    /\ Apply("aggregate", aggregate(arg.u, arg.pack))

\* any utilities over UVals; any capacity over MuVals on any set of subsets
ChoquetInit ==
    /\ RegInit /\ fn = "none" /\ out = <<>>
    /\ \E k \in 0 .. MaxAxes : \E x \in [1 .. k -> UVals] :
          \/ \E D \in SUBSET Subsets(k) : \E mu \in [D -> MuVals] :
                arg = ChoquetInput(x, mu)
          \/ \E w \in [1 .. k -> WVals] : \E additive \in BOOLEAN :
                arg = AggregateInput(x, w, additive)
ChoquetNext == ApplyChoquet \/ ApplyAggregate
SpecChoquet == ChoquetInit /\ [][ChoquetNext]_vars

(***************************************************************************)
(* AxisPack validation and persistence: validate, save then load, and      *)
(* from_json_obj, on packs of up to MaxK names with Q of up to MaxD rows.  *)
(* Q is a float32 array (pack.py line 83); lambda_, beta and weights are   *)
(* float32 or float64.                                                     *)
(***************************************************************************)
MaxK == 2
MaxD == 2

\* columns of d entries: the unit vectors, and columns whose squared norm
\* is 1 + 4e-8, 1 + 1.62e-5 and 1 + 4.104e-5
Pad(c, d) == [r \in 1 .. d |-> IF r <= Len(c) THEN c[r] ELSE 0]
Cols(d) ==
    {[r \in 1 .. d |-> IF r = i THEN One ELSE 0] : i \in 1 .. d}
        \cup (IF d >= 2
              THEN {Pad(c, d) : c \in {<<One - 2, 200>>, <<One - 2, 204>>,
                                       <<One - 2, 210>>, <<-200, One - 2>>}}
              ELSE IF d = 1 THEN {<<One - 2>>} ELSE {<<>>})

\* the (d, k) array with the given columns
FromCols(d, k, cols) == Arr2(d, k, [r \in 1 .. d |-> [c \in 1 .. k |-> cols[c][r]]])

QInputs(rows, names) ==
    {Arr1(<<One>>)} \cup
    UNION {{FromCols(d, k, cols) : cols \in [1 .. k -> Cols(d)]} :
           d \in 0 .. rows, k \in 0 .. names}

Full(k, v) == Arr1([i \in 1 .. k |-> v])

\* lambda_, beta, weights for k names: float32 values, float64 values, and
\* one array each of a shape other than (k,)
VecInputs(k) ==
    {<<Full(k, One), Full(k, 0), Full(k, One \div 2)>>,
     <<Full(k, One + 1), Full(k, 3), Full(k, One \div 3)>>,
     <<Full(k + 1, One), Full(k, 0), Full(k, One)>>,
     <<Full(k, One), Arr2(k, 1, [i \in 1 .. k |-> <<0>>]), Full(k, One)>>,
     <<Full(k, One), Full(k, 0), Arr0(One)>>}

MuInputs == {<<>>, ({} :> 0) @@ ({0} :> One)}

PackInput(k, Q, vecs, mu) ==
    [names |-> Names(k), Q |-> Q, lambda_ |-> vecs[1], beta |-> vecs[2],
     weights |-> vecs[3], mu |-> mu, meta |-> <<>>]

\* the JSON object with the fields of a pack, valid or not
RawJson(pack) ==
    [names |-> pack.names, Q |-> tolist(pack.Q), lambda |-> tolist(pack.lambda_),
     beta |-> tolist(pack.beta), weights |-> tolist(pack.weights),
     mu |-> _mu_to_json(pack.mu), meta |-> pack.meta]

Without(obj, keys) == [key \in (DOMAIN obj) \ keys |-> obj[key]]

\* the keys left out of a JSON object
DroppedKeys == {{}, {"lambda", "beta", "weights", "mu", "meta"}, {"Q"}}

ApplyValidate ==
    /\ arg.kind = "pack"
    /\ Apply("validate", validate(arg.pack))

ApplyLoadSave ==
    /\ arg.kind = "pack"
    /\ Apply("load_save", LoadSave(arg.pack))

ApplyFromJson ==
    /\ arg.kind = "json"
    /\ Apply("from_json_obj", from_json_obj(arg.obj))

PackInit ==
    /\ RegInit /\ fn = "none" /\ out = <<>>
    /\ \E k \in 0 .. MaxK : \E Q \in QInputs(MaxD, MaxK) :
       \E vecs \in VecInputs(k) : \E mu \in MuInputs :
          \/ arg = [kind |-> "pack", pack |-> PackInput(k, Q, vecs, mu)]
          \/ \E keys \in DroppedKeys :
                arg = [kind |-> "json",
                       obj |-> Without(RawJson(PackInput(k, Q, vecs, mu)), keys)]
PackNext == ApplyValidate \/ ApplyLoadSave \/ ApplyFromJson
SpecPack == PackInit /\ [][PackNext]_vars

\* Q is not 2-D with k = len(names) columns, or lambda_, beta or weights is
\* not of shape (k,)
ShapeViolation(pack) ==
    \/ ndim(pack.Q) # 2
    \/ pack.Q.shape[2] # Len(pack.names)
    \/ \E arr \in {pack.lambda_, pack.beta, pack.weights} : arr.shape # <<Len(pack.names)>>

\* some entry of Q^T Q differs from the identity by more than 1e-5
NotOrthonormal(pack) ==
    \E i \in 1 .. Len(pack.names) : \E j \in 1 .. Len(pack.names) :
        Abs(QtQ(pack.Q)[i][j] - (IF i = j THEN One * One ELSE 0)) > Atol

\* C7: validate() fails whenever Q is not 2-D with exactly k = len(names)
\* columns, or lambda_, beta or weights does not have shape (k,), or Q^T Q
\* differs from the identity by more than the 1e-5 tolerance, and it succeeds
\* in every other case.
C7_ValidateFailsExactlyOnViolation ==
    fn = "validate"
        => (~out.ok <=> (ShapeViolation(arg.pack) \/ NotOrthonormal(arg.pack)))

\* C8: for every valid AxisPack, load(save(pack)) returns a pack with the same
\* names and Q and with lambda_, beta and weights equal to float32 precision,
\* which passes validate() again; save fails for an invalid pack, and
\* from_json_obj returns no pack that fails validation.
C8_RoundTrip ==
    /\ (fn = "load_save" /\ validate(arg.pack).ok)
          => /\ out.ok
             /\ out.val.names = arg.pack.names
             /\ out.val.Q = arg.pack.Q
             /\ out.val.lambda_ = F32Arr(arg.pack.lambda_)
             /\ out.val.beta = F32Arr(arg.pack.beta)
             /\ out.val.weights = F32Arr(arg.pack.weights)
             /\ validate(out.val).ok
    /\ (fn = "load_save" /\ ~validate(arg.pack).ok) => ~out.ok
    /\ fn = "from_json_obj"
          => \/ ~out.ok
             \/ ~(ShapeViolation(out.val) \/ ~allclose(QtQ(out.val.Q), eye(Len(out.val.names))))

\* C8 witness: a valid pack with float64 lambda_, beta and weights and a
\* column of Q that is not a unit vector has been saved and loaded, and
\* lambda_ came back rounded.
C8_Witness ==
    /\ fn = "load_save"
    /\ out.ok
    /\ Len(arg.pack.names) = 2
    /\ arg.pack.Q.v[2][1] # 0 /\ arg.pack.Q.v[1][1] # 0
    /\ out.val.lambda_ # arg.pack.lambda_

\* C8 witness: from_json_obj has rejected an object whose Q is not
\* orthonormal and has returned a pack for an object without "lambda",
\* "beta" and "weights".
C8_WitnessRejected ==
    /\ fn = "from_json_obj"
    /\ "Q" \in DOMAIN arg.obj
    /\ \/ out.err = "ValueError"
       \/ out.ok /\ "lambda" \notin DOMAIN arg.obj

(***************************************************************************)
(* Entry points on vectors: project, resonance, span_coherence and         *)
(* run_pipeline_from_vectors on arrays of up to MaxN tokens and up to      *)
(* MaxD + 1 features, against packs whose Q has up to MaxD rows.           *)
(***************************************************************************)
MaxN == 3
MaxSpanLen == 2
SkipVals == 0 .. 2

\* Q of shape (d, k): the first k unit vectors, or two slightly tilted columns
DimQ(d, k) ==
    {FromCols(d, k, [c \in 1 .. k |-> [r \in 1 .. d |-> IF r = c THEN One ELSE 0]])}
        \cup (IF d >= 2 /\ k = 2
              THEN {FromCols(d, k, <<Pad(<<One - 2, 200>>, d), Pad(<<-200, One - 2>>, d)>>)}
              ELSE {})

DimPacks(rows, names) ==
    UNION {{[names |-> Names(k), Q |-> Q, lambda_ |-> Full(k, 2), beta |-> Full(k, 1),
             weights |-> Full(k, 1), mu |-> mu, meta |-> <<>>] :
               Q \in DimQ(d, k), mu \in {<<>>, ({0} :> 1)}} :
           d \in 0 .. rows, k \in 0 .. names}

\* entries -2, 0 and 2 in a pattern that depends on the seed
XVal(seed, i, j) == 2 * (((seed + i + 2 * j) % 3) - 1)

XInputs(tokens, features) ==
    {Arr0(2)}
        \cup {Arr1([j \in 1 .. f |-> XVal(seed, 1, j)]) : f \in 0 .. features, seed \in 0 .. 1}
        \cup {Arr2(n, f, [i \in 1 .. n |-> [j \in 1 .. f |-> XVal(seed, i, j)]]) :
                 n \in 0 .. tokens, f \in 0 .. features, seed \in 0 .. 1}

ApplyProject ==
    /\ arg.kind = "vectors"
    /\ Apply("project", project(arg.X, arg.pack))

ApplyResonance ==
    /\ arg.kind = "vectors"
    /\ Apply("resonance", resonance(arg.X, arg.pack))

ApplySpanCoherence ==
    /\ arg.kind = "span"
    /\ Apply("span_coherence",
             span_coherence(arg.X, arg.pack, arg.start, arg.end, arg.max_skip))

ApplyRunPipeline ==
    /\ arg.kind = "vectors"
    /\ Apply("run_pipeline_from_vectors",
             run_pipeline_from_vectors(arg.X, arg.pack, arg.params))

\* diffusion_tau: None, 0.05 or 0.2
TauVals == {NoTau, 1, 4}
RoleModes == {"lr", "agent_patient"}

\* the Laplacian of n tokens is not built (n < 2) or has integer eigenvalues
Diffusible(n, max_skip) == n < 2 \/ IntegralSpectrum(build_graph(n, max_skip).L)

DimInit ==
    /\ RegInit /\ fn = "none" /\ out = <<>>
    /\ \E ms \in SkipVals :
       \E sizes \in {{n \in 0 .. Max(MaxN, MaxD + 1) : Diffusible(n, ms)}} :
       \E X \in XInputs(MaxN, MaxD + 1) : \E pack \in DimPacks(MaxD, MaxK) :
          \/ \E tau \in TauVals : \E rm \in RoleModes : \E sl \in 1 .. MaxSpanLen :
                /\ IF tau = NoTau \/ ndim(X) = 0 THEN TRUE ELSE X.shape[1] \in sizes
                /\ arg = [kind |-> "vectors", X |-> X, pack |-> pack,
                          params |-> [max_span_len |-> sl, max_skip |-> ms,
                                      diffusion_tau |-> tau, role_mode |-> rm]]
          \/ \E st \in 0 .. MaxN - 1 : \E en \in 0 .. MaxN :
                arg = [kind |-> "span", X |-> X, pack |-> pack,
                       start |-> st, end |-> en, max_skip |-> ms]
DimNext == ApplyProject \/ ApplyResonance \/ ApplySpanCoherence \/ ApplyRunPipeline
SpecDim == DimInit /\ [][DimNext]_vars

\* the feature dimension of X (the length of its last axis) differs from
\* the row count of pack.Q
DimensionMismatch ==
    /\ ndim(arg.X) >= 1
    /\ arg.X.shape[ndim(arg.X)] # arg.pack.Q.shape[1]

\* the span [start, end) has a pair i < j with j - i <= max_skip
HasSkipPair ==
    \E i \in arg.start .. arg.end - 1 : \E j \in arg.start .. arg.end - 1 :
        i < j /\ j - i <= arg.max_skip

\* C6 (as stated): for any X whose feature dimension differs from the row
\* count of pack.Q, each of project, resonance, span_coherence and
\* run_pipeline_from_vectors fails with an error rather than returning a
\* result.
C6_MismatchFails ==
    (fn # "none" /\ DimensionMismatch) => ~out.ok

\* C6 (amended): for any X whose feature dimension differs from the row count
\* of pack.Q, project, resonance and run_pipeline_from_vectors fail with an
\* error, and span_coherence fails whenever the span has at least one skip
\* pair; for a span without skip pairs it returns 0.0 without looking at X.
C6_MismatchFailsWhereXIsRead ==
    (fn # "none" /\ DimensionMismatch)
        => IF fn = "span_coherence" /\ ~HasSkipPair
           THEN out.ok /\ out.val.num = 0
           ELSE ~out.ok

\* C6 witness: span_coherence has raised on a 2-d array with too many
\* features for a span with skip pairs.
C6_Witness ==
    /\ fn = "span_coherence"
    /\ ndim(arg.X) = 2
    /\ arg.X.shape[2] > arg.pack.Q.shape[1]
    /\ arg.X.shape[1] >= arg.end
    /\ HasSkipPair
    /\ out.err = "ValueError"

\* C9: for every utility vector u and every weight vector, aggregate with the
\* additive capacity mu(A) = sum of weights[i] for i in A, defined on every
\* subset, returns what aggregate returns for the same pack with an empty mu,
\* the linear aggregation sum_i u_i * weights[i].
C9_AdditiveChoquetIsLinear ==
    (fn = "aggregate" /\ arg.pack.mu = Additive(Vec(arg.pack.weights)))
        => /\ out = aggregate(arg.u, [arg.pack EXCEPT !.mu = <<>>])
           /\ out.ok
           /\ Scalar(out.val) = Dot(Vec(arg.u), Vec(arg.pack.weights))

\* the i-th smallest entry of x, counted with multiplicity
Ascending(x, i) ==
    CHOOSE v \in {x[j] : j \in 1 .. Len(x)} :
        /\ Cardinality({j \in 1 .. Len(x) : x[j] < v}) < i
        /\ i <= Cardinality({j \in 1 .. Len(x) : x[j] <= v})

\* sum over i = 1..k of (x_(i) - x_(i-1)) * mu(A_i) with x_(0) = 0,
\* A_i = { j : x_j >= x_(i) - tol } and mu(A) = 0 for A absent from mu
ChoquetSum(x, mu, tol) ==
    LET A(i) == {j \in 0 .. Len(x) - 1 : x[j + 1] >= Ascending(x, i) - tol}
        Below(i) == IF i = 1 THEN 0 ELSE Ascending(x, i - 1)
    IN  SumSeq([i \in 1 .. Len(x) |->
                   (Ascending(x, i) - Below(i)) * (IF A(i) \in DOMAIN mu THEN mu[A(i)] ELSE 0)])

RowUtilities(x, pack) ==
    [i \in 1 .. pack.Q.shape[2] |->
        Vec(pack.lambda_)[i] * SumSeq([r \in 1 .. Len(x) |-> pack.Q.v[r][i] * x[r]])
            + Vec(pack.beta)[i]]

\* the value the claim gives for one row x
RowResonance(x, pack) ==
    IF DOMAIN pack.mu = {}
    THEN SumSeq([i \in 1 .. pack.Q.shape[2] |->
                    Vec(pack.weights)[i] * RowUtilities(x, pack)[i]])
    ELSE ChoquetSum(RowUtilities(x, pack), pack.mu, Eps)

\* C11: resonance(X, pack) is aggregate(utilities(project(X, pack), pack),
\* pack); for a single vector x of the pack's dimension it returns the scalar
\* RowResonance(x), for a batch one such value per row in row order: with an
\* empty mu the weighted sum of lambda[i] * (Q^T x)_i + beta[i], with a
\* non-empty mu the Choquet integral of these utilities.
C11_ResonanceFormula ==
    (fn = "resonance" /\ ndim(arg.X) \in {1, 2} /\ ~DimensionMismatch)
        => /\ out.ok
           /\ out = aggregate(utilities(project(arg.X, arg.pack).val, arg.pack).val, arg.pack)
           /\ IF ndim(arg.X) = 1
              THEN /\ ndim(out.val) = 0
                   /\ Scalar(out.val) = RowResonance(Vec(arg.X), arg.pack)
              ELSE /\ out.val.shape = <<arg.X.shape[1]>>
                   /\ \A i \in 1 .. arg.X.shape[1] :
                         Vec(out.val)[i] = RowResonance(arg.X.v[i], arg.pack)

\* C11 witness: resonance of a batch of at least two rows under a pack with
\* two axes and a non-empty mu, where two rows get different values and the
\* Choquet value of a row differs from its weighted sum.
C11_Witness ==
    /\ fn = "resonance"
    /\ ndim(arg.X) = 2
    /\ ~DimensionMismatch
    /\ arg.pack.Q.shape[2] = 2
    /\ DOMAIN arg.pack.mu # {}
    /\ out.ok
    /\ \E i \in 1 .. arg.X.shape[1] : \E j \in 1 .. arg.X.shape[1] :
          /\ Vec(out.val)[i] # Vec(out.val)[j]
          /\ Vec(out.val)[i] # Dot(RowUtilities(arg.X.v[i], arg.pack), Vec(arg.pack.weights))

(***************************************************************************)
(* Frames and the diffused signal (pipeline/orchestrator.py)               *)
(***************************************************************************)
\* frame extraction as the orchestrator configures it (saliency_thresh 0.0,
\* arg_band 0.5, max_arg_len 2) run on a signal s
FramesOfSignal(s, role_mode) ==
    FramesAround(s, Filter(_local_maxima(s), {i \in 0 .. Len(s) - 1 : s[i + 1] >= 0}),
                 Half, 2, role_mode)

\* C12: when diffusion_tau is set and n >= 2, the frames returned by
\* run_pipeline_from_vectors are those of frame extraction run on
\* tokens.signal: the same predicates and argument spans, and each score is
\* the signal (num / den) at the predicate.
C12_FramesFromDiffusedSignal ==
    (/\ fn = "run_pipeline_from_vectors"
     /\ out.ok
     /\ arg.params.diffusion_tau # NoTau
     /\ arg.X.shape[1] >= 2)
        => LET sig == out.val.tokens.signal
               ref == FramesOfSignal(Vec(sig.num), arg.params.role_mode)
               frames == out.val.frames
           IN  /\ Len(frames) = Len(ref)
               /\ \A t \in 1 .. Len(frames) :
                     /\ frames[t].predicate = ref[t].predicate
                     /\ frames[t].roles = ref[t].roles
                     /\ frames[t].score * sig.den = ref[t].score

(***************************************************************************)
(* Span enumeration (pipeline/scoring.py)                                  *)
(***************************************************************************)
\* C13: a successful run_pipeline_from_vectors on n tokens returns exactly
\* the spans [i, j) with 0 <= i < j <= n and 1 <= j - i <= max_span_len, each
\* once, ordered by i then j, sum over i of min(n - i, max_span_len) of them,
\* and one coherence value per span at the span's position: the
\* span_coherence of that span.  It succeeds for every 2-d X of the pack's
\* dimension.
C13_SpansEnumerated ==
    (fn = "run_pipeline_from_vectors" /\ ndim(arg.X) = 2 /\ ~DimensionMismatch)
        => LET n == arg.X.shape[1]
               max_len == arg.params.max_span_len
               spans == out.val.spans.spans
               coh == out.val.spans.coherence
           IN  /\ out.ok
               /\ {spans[t] : t \in 1 .. Len(spans)}
                     = {<<i, j>> \in (0 .. n) \X (0 .. n) : i < j /\ j - i <= max_len}
               /\ \A t \in 1 .. Len(spans) : \A u \in 1 .. Len(spans) :
                     t < u => \/ spans[t][1] < spans[u][1]
                              \/ spans[t][1] = spans[u][1] /\ spans[t][2] < spans[u][2]
               /\ Len(spans) = SumSeq([i \in 1 .. n |-> Min(n - (i - 1), max_len)])
               /\ Len(coh) = Len(spans)
               /\ \A t \in 1 .. Len(spans) :
                     coh[t] = span_coherence(arg.X, arg.pack, spans[t][1], spans[t][2],
                                             arg.params.max_skip).val

\* C13 witness: a run on three tokens with max_span_len 2 has returned five
\* spans, among them a span of two tokens with a non-zero coherence.
C13_Witness ==
    /\ fn = "run_pipeline_from_vectors"
    /\ out.ok
    /\ arg.X.shape[1] = 3
    /\ arg.params.max_span_len = 2
    /\ Len(out.val.spans.spans) = 5
    /\ \E t \in 1 .. 5 :
          /\ out.val.spans.spans[t][2] - out.val.spans.spans[t][1] = 2
          /\ out.val.spans.coherence[t].num # 0

(***************************************************************************)
(* span_coherence on saliency profiles (coherence/skipmesh.py): token      *)
(* vectors of one feature whose values rise to a peak and fall, under a    *)
(* pack with one axis, and every span of the profile.                      *)
(***************************************************************************)
MaxProfileLen == 4
ProfileVals == {0, 2, 4, 6}

\* non-decreasing up to some index and non-increasing from it on
Unimodal(s) ==
    \E p \in 1 .. Len(s) :
        /\ \A i \in 1 .. p - 1 : s[i] <= s[i + 1]
        /\ \A i \in p .. Len(s) - 1 : s[i] >= s[i + 1]

ProfileInit ==
    /\ RegInit /\ fn = "none" /\ out = <<>>
    /\ \E n \in 1 .. MaxProfileLen : \E s \in [1 .. n -> ProfileVals] :
       \E pack \in DimPacks(1, 1) : \E ms \in SkipVals :
       \E st \in 0 .. n - 1 : \E en \in st + 1 .. n :
          /\ Unimodal(s)
          /\ pack.Q.shape = <<1, 1>>
          /\ arg = [kind |-> "span", X |-> Arr2(n, 1, [i \in 1 .. n |-> <<s[i]>>]),
                    pack |-> pack, start |-> st, end |-> en, max_skip |-> ms]
ProfileNext == ApplySpanCoherence
SpecProfile == ProfileInit /\ [][ProfileNext]_vars

\* the token (from 0) at which the profile has its only maximum lies in
\* [start, end)
PeakIn(start, end) ==
    \E i \in start .. end - 1 :
        \A j \in 0 .. arg.X.shape[1] - 1 : j # i => arg.X.v[i + 1][1] > arg.X.v[j + 1][1]

\* C14: for a monotone-unimodal saliency profile along one axis and two
\* spans of equal length (long enough to have a skip pair), span_coherence
\* of the span that contains the peak is strictly greater than
\* span_coherence of a span that does not contain it.
C14_PeakSpanMoreCoherent ==
    (fn = "span_coherence" /\ HasSkipPair /\ PeakIn(arg.start, arg.end))
        => \A st \in 0 .. arg.X.shape[1] :
              LET en == st + (arg.end - arg.start)
                  other == span_coherence(arg.X, arg.pack, st, en, arg.max_skip).val
              IN  (en <= arg.X.shape[1] /\ ~PeakIn(st, en))
                     => out.val.num * other.den > other.num * out.val.den

(***************************************************************************)
(* Axis-pack builders.  A seed set is an array: Arr1(<<>>) is the empty    *)
(* list [], Arr2(0, d, <<>>) an empty array of d-vectors, Arr2(n, d, rows) *)
(* n vectors.  Seeds are the ordered items of the seeds_vecs mapping.      *)
(* Only the direction of a vector enters Q, so seed vectors are small      *)
(* integers and a direction is one of Dirs(d), whose unit vector lies on   *)
(* the value grid; np.linalg.qr fixes each column up to its sign, which    *)
(* is an input (signs).                                                    *)
(***************************************************************************)
Dirs(d) ==
    {w \in [1 .. d -> {-4, -3, -1, 0, 1, 3, 4}] :
        SumSeq([i \in 1 .. d |-> w[i] * w[i]]) \in {1, 25}}

IsZero(v) == \A i \in 1 .. Len(v) : v[i] = 0

Parallel(v, w) ==
    /\ Len(v) = Len(w)
    /\ \A i, j \in 1 .. Len(v) : v[i] * w[j] = v[j] * w[i]
    /\ Dot(v, w) > 0

Representable(v) == \E w \in Dirs(Len(v)) : Parallel(v, w)
Direction(v) == CHOOSE w \in Dirs(Len(v)) : Parallel(v, w)

\* v / ||v|| for v in Dirs
Unit(w) == [i \in 1 .. Len(w) |-> w[i] * (One \div (IF Dot(w, w) = 1 THEN 1 ELSE 5))]

\* a minus its components along the orthogonal directions ws, up to a
\* positive factor
RECURSIVE Residual(_, _)
Residual(a, ws) ==
    IF ws = <<>> THEN a
    ELSE LET w == Head(ws)
         IN  Residual([i \in 1 .. Len(a) |-> Dot(w, w) * a[i] - Dot(a, w) * w[i]], Tail(ws))

\* the directions of the columns of the reduced Q of the d-row matrix with
\* columns A: min(d, k) of them; a column in the span of the earlier ones
\* leaves some direction orthogonal to them
RECURSIVE QRColumns(_, _, _, _)
QRColumns(A, signs, d, ws) ==
    IF Len(ws) >= Min(d, Len(A)) THEN ws
    ELSE LET j == Len(ws) + 1
             r == Residual(A[j], ws)
             w == IF IsZero(r)
                  THEN CHOOSE u \in Dirs(d) : \A t \in 1 .. Len(ws) : Dot(u, ws[t]) = 0
                  ELSE Direction(r)
         IN  QRColumns(A, signs, d, Append(ws, [i \in 1 .. d |-> signs[j] * w[i]]))

\* Q, _ = np.linalg.qr(A) in reduced mode: Q has shape (d, min(d, k))
_qr_orthonormalize(A, signs, d) ==
    LET ws == QRColumns(A, signs, d, <<>>)
    IN  FromCols(d, Len(ws), [c \in 1 .. Len(ws) |-> Unit(ws[c])])

\* the sum of the rows of a 2-d array
SumRows(a) == [c \in 1 .. a.shape[2] |-> SumSeq([r \in 1 .. a.shape[1] |-> a.v[r][c]])]

\* the mean as numerator vector over the number of vectors
_mean(arrs) ==
    IF arrs.shape[1] = 0 THEN Exc("ValueError")
    ELSE Ok([num |-> SumRows(arrs), den |-> arrs.shape[1]])

\* vp - vn times the positive number vp.den * vn.den; vectors of unequal
\* length broadcast only when one has length 1
_diff_of_means(pos_vecs, neg_vecs) ==
    LET vp == _mean(pos_vecs)
        vn == _mean(neg_vecs)
        m == Max(Len(vp.val.num), Len(vn.val.num))
        Cast(v) == IF Len(v) = m THEN v ELSE [i \in 1 .. m |-> v[1]]
    IN  IF ~vp.ok THEN vp
        ELSE IF ~vn.ok THEN vn
        ELSE IF Len(vp.val.num) # Len(vn.val.num) /\ Min(Len(vp.val.num), Len(vn.val.num)) # 1
        THEN Exc("ValueError")
        ELSE Ok([i \in 1 .. m |-> Cast(vp.val.num)[i] * vn.val.den
                                    - Cast(vn.val.num)[i] * vp.val.den])

\* the pack both builders return for uniform weights
UniformPack(names, Q) ==
    [names |-> names, Q |-> Q, lambda_ |-> Full(Len(names), One),
     beta |-> Full(Len(names), 0), weights |-> Full(Len(names), F32(One \div Len(names))),
     mu |-> <<>>, meta |-> <<>>]

\* builder.build_axis_pack_from_vectors with the default keyword arguments
build_axis_pack_from_vectors(seeds_vecs, signs) ==
    LET k == Len(seeds_vecs)
        vs == [i \in 1 .. k |-> _diff_of_means(seeds_vecs[i].pos, seeds_vecs[i].neg)]
        A == [i \in 1 .. k |-> vs[i].val]
    IN  IF k = 0 THEN Exc("ValueError")
        ELSE IF \E i \in 1 .. k : ~vs[i].ok THEN Exc("ValueError")
        ELSE IF \E i \in 1 .. k : Len(A[i]) # Len(A[1]) THEN Exc("ValueError")
        ELSE Ok(UniformPack([i \in 1 .. k |-> seeds_vecs[i].name],
                            _qr_orthonormalize(A, signs, Len(A[1]))))

\* reshape(1, -1) of a 1-d array
to2d(a) == IF ndim(a) = 1 THEN Arr2(1, a.shape[1], a.v) ELSE a

\* the row vector v times the matrix W
VecMat(v, W) == [j \in 1 .. W.shape[2] |-> SumSeq([i \in 1 .. W.shape[1] |-> v[i] * W.v[i][j]])]

\* the body of the per-axis try block: the direction of the axis before
\* normalisation, up to a positive factor.  mu_whit is subtracted from both
\* means and cancels; (X - mu_whit) @ W_whit needs X to have W_whit.shape[0]
\* columns or one column, which broadcasts.  With one vector per set the
\* within-class scatter of lda_direction is its shrinkage term, a multiple
\* of the identity, so the LDA direction is that of the difference of the
\* whitened means, as in the fallback branch.
AxisVec(self, axis, W_whit, D) ==
    LET pos_vecs == to2d(axis.pos)
        neg_vecs == to2d(axis.neg)
        Dw == W_whit.shape[1]
        Cast(v) == IF Len(v) = Dw THEN v ELSE [i \in 1 .. Dw |-> v[1]]
        diff == [i \in 1 .. Dw |->
                    Cast(SumRows(pos_vecs))[i] * neg_vecs.shape[1]
                        - Cast(SumRows(neg_vecs))[i] * pos_vecs.shape[1]]
        w_dir == VecMat(diff, W_whit)
        axis_vec == IF W_whit.shape[2] # D
                    THEN [i \in 1 .. W_whit.shape[1] |-> Dot(W_whit.v[i], w_dir)]
                    ELSE w_dir
    IN  IF pos_vecs.shape[1] = 0 \/ neg_vecs.shape[1] = 0 THEN Exc("ValueError")
        ELSE IF \E X \in {pos_vecs, neg_vecs} : X.shape[2] \notin {Dw, 1}
        THEN Exc("ValueError")
        ELSE IF IsZero(axis_vec) THEN Exc("ValueError")
        ELSE Ok(axis_vec)

\* the axes the loop keeps, in order: [name, vec] with vec the unit vector's
\* direction
RECURSIVE ProcessAxes(_, _, _, _)
ProcessAxes(self, seeds_vecs, W_whit, D) ==
    IF seeds_vecs = <<>> THEN <<>>
    ELSE LET axis == Head(seeds_vecs)
             v == AxisVec(self, axis, W_whit, D)
             rest == ProcessAxes(self, Tail(seeds_vecs), W_whit, D)
         IN  IF v.ok THEN <<[name |-> axis.name, vec |-> Direction(v.val)]>> \o rest
             ELSE rest

\* the embedding dimension inferred from the first axis's positive set
InferredD(seeds_vecs) ==
    LET first_pos == seeds_vecs[1].pos
    IN  IF ndim(first_pos) = 1 THEN first_pos.shape[1] ELSE first_pos.shape[2]

\* the arrays handed to np.vstack
PooledVectors(seeds_vecs) ==
    [i \in 1 .. 2 * Len(seeds_vecs) |->
        to2d(IF i % 2 = 1 THEN seeds_vecs[(i + 1) \div 2].pos ELSE seeds_vecs[i \div 2].neg)]

\* W_whit: W is the matrix compute_whitener returns for the pooled vectors
\* (the inverse square root of their covariance), drawn as an input for
\* each width; without whitening np.eye(D)
Whitener(self, seeds_vecs, W) ==
    LET Dall == PooledVectors(seeds_vecs)[1].shape[2]
        D == InferredD(seeds_vecs)
    IN  IF self.whitening THEN Arr2(Dall, Dall, W[Dall])
        ELSE Arr2(D, D, [i \in 1 .. D |-> [j \in 1 .. D |-> IF i = j THEN 1 ELSE 0]])

\* AdvancedAxisBuilder.build_axis_pack_from_vectors with the default
\* keyword arguments; self holds whitening, use_lda and orthogonalize.
\* np.cov of vectors of width 1 is 0-d, which np.linalg.eigh rejects; with
\* fewer than two pooled vectors the covariance is NaN and no axis has two
\* non-empty sets.
AdvancedAxisBuilder_build_axis_pack_from_vectors(self, seeds_vecs, W, signs) ==
    LET D == InferredD(seeds_vecs)
        all_vectors == PooledVectors(seeds_vecs)
        Dall == all_vectors[1].shape[2]
        W_whit == Whitener(self, seeds_vecs, W)
        kept == ProcessAxes(self, seeds_vecs, W_whit, D)
        Qcols == [i \in 1 .. Len(kept) |-> kept[i].vec]
        Q_ortho == IF self.orthogonalize /\ Len(kept) > 1
                   THEN _qr_orthonormalize(Qcols, signs, D)
                   ELSE FromCols(D, Len(kept), [i \in 1 .. Len(kept) |-> Unit(Qcols[i])])
        axis_pack == UniformPack([i \in 1 .. Len(kept) |-> kept[i].name], Q_ortho)
    IN  IF seeds_vecs = <<>> THEN Exc("StopIteration")
        ELSE IF self.whitening
                /\ \E i \in 1 .. Len(all_vectors) : all_vectors[i].shape[2] # Dall
        THEN Exc("ValueError")
        ELSE IF self.whitening /\ Dall = 1
                /\ SumSeq([i \in 1 .. Len(all_vectors) |-> all_vectors[i].shape[1]]) >= 2
        THEN Exc("LinAlgError")
        ELSE IF Len(kept) = 0 THEN Exc("ValueError")
        ELSE IF \E i \in 1 .. Len(kept) : Len(Qcols[i]) # Len(Qcols[1]) THEN Exc("ValueError")
        ELSE IF Len(Qcols[1]) # D THEN Exc("ValueError")
        ELSE IF Q_ortho.shape[2] # Len(kept) THEN Exc("ValueError")
        ELSE IF ~validate(axis_pack).ok THEN validate(axis_pack)
        ELSE Ok(axis_pack)

(***************************************************************************)
(* Building packs: seeds of up to MaxSeedAxes axes over vectors of a       *)
(* width in SeedDims, each set empty or of one vector, given to the basic  *)
(* and to the advanced builder under every configuration.  In up to two    *)
(* dimensions the residual of one direction of Dirs against another is in  *)
(* Dirs again; the inputs keep to whitened directions that are in Dirs.    *)
(***************************************************************************)
MaxSeedAxes == 3
SeedDims == {1, 2}

Row(v) == Arr2(1, Len(v), <<v>>)

\* (positive set, negative set) of one axis
SeedPairs(d) ==
    {<<Row(Pad(<<1>>, d)), Row(Pad(<<0>>, d))>>,
     <<Row(Pad(<<0, 1>>, d)), Row(Pad(<<0>>, d))>>,
     <<Row(Pad(<<3, 4>>, d)), Row(Pad(<<0>>, d))>>,
     <<Row(Pad(<<1>>, d)), Row(Pad(<<1>>, d))>>,
     <<Arr1(<<>>), Row(Pad(<<1>>, d))>>,
     <<Row(Pad(<<1>>, d)), Arr2(0, d, <<>>)>>}

Seeds(pairs) ==
    [i \in 1 .. Len(pairs) |-> [name |-> AxisNames[i], pos |-> pairs[i][1], neg |-> pairs[i][2]]]

Signs(k) == {[j \in 1 .. k |-> 1], [j \in 1 .. k |-> IF j % 2 = 1 THEN -1 ELSE 1]}

BuilderConfigs == [whitening : BOOLEAN, use_lda : BOOLEAN, orthogonalize : BOOLEAN]

\* symmetric positive definite matrices, one for each width
Whiteners ==
    {[d \in 0 .. 2 |-> [i \in 1 .. d |-> [j \in 1 .. d |->
        IF i # j THEN 0 ELSE IF i = 1 THEN c ELSE 1]]] : c \in {1, 2}}

DirectionsRepresentable(self, seeds_vecs, W) ==
    \A i \in 1 .. Len(seeds_vecs) :
        LET v == AxisVec(self, seeds_vecs[i], Whitener(self, seeds_vecs, W),
                         InferredD(seeds_vecs))
        IN  v.ok => Representable(v.val)

BuildInit ==
    /\ RegInit
    /\ fn = "none"
    /\ out = <<>>
    /\ \E d \in SeedDims : \E k \in 1 .. MaxSeedAxes : \E pairs \in [1 .. k -> SeedPairs(d)] :
       \E signs \in Signs(k) :
          \/ arg = [kind |-> "seeds", seeds_vecs |-> Seeds(pairs), signs |-> signs]
          \/ \E self \in BuilderConfigs : \E W \in Whiteners :
                /\ self.whitening \/ W[1] = <<<<1>>>>
                /\ DirectionsRepresentable(self, Seeds(pairs), W)
                /\ arg = [kind |-> "advanced_seeds", self |-> self,
                          seeds_vecs |-> Seeds(pairs), W |-> W, signs |-> signs]

ApplyBasicBuilder ==
    /\ arg.kind = "seeds"
    /\ Apply("build_axis_pack_from_vectors",
             build_axis_pack_from_vectors(arg.seeds_vecs, arg.signs))

ApplyAdvancedBuilder ==
    /\ arg.kind = "advanced_seeds"
    /\ Apply("AdvancedAxisBuilder.build_axis_pack_from_vectors",
             AdvancedAxisBuilder_build_axis_pack_from_vectors(arg.self, arg.seeds_vecs,
                                                              arg.W, arg.signs))

BuildNext == ApplyBasicBuilder \/ ApplyAdvancedBuilder

SpecBuild == BuildInit /\ [][BuildNext]_vars

\* an axis survives when it has vectors on both sides and their means differ
Survives(axis) ==
    /\ to2d(axis.pos).shape[1] > 0
    /\ to2d(axis.neg).shape[1] > 0
    /\ to2d(axis.pos).shape[2] > 0
    /\ to2d(axis.neg).shape[2] > 0
    /\ ~IsZero(_diff_of_means(axis.pos, axis.neg).val)

RECURSIVE Surviving(_)
Surviving(seeds_vecs) ==
    IF seeds_vecs = <<>> THEN <<>>
    ELSE (IF Survives(Head(seeds_vecs)) THEN <<Head(seeds_vecs).name>> ELSE <<>>)
             \o Surviving(Tail(seeds_vecs))

\* C15: the advanced builder fails only when no axis survives, and otherwise
\* returns a pack whose names are the surviving axes in input order: an axis
\* with an empty set or a zero direction is dropped and the others are kept
C15_DropsWithoutAborting ==
    fn = "AdvancedAxisBuilder.build_axis_pack_from_vectors" =>
        LET names == Surviving(arg.seeds_vecs)
        IN  IF names = <<>> THEN ~out.ok
            ELSE out.ok /\ out.val.names = names

\* C16: every pack returned by the basic or by the advanced builder has a
\* 2-d Q with one column for each axis name and orthonormal columns, that is,
\* it passes validate()
C16_BuiltPackValid ==
    (fn \in {"build_axis_pack_from_vectors",
             "AdvancedAxisBuilder.build_axis_pack_from_vectors"} /\ out.ok) =>
        /\ ndim(out.val.Q) = 2
        /\ out.val.Q.shape[2] = Len(out.val.names)
        /\ validate(out.val).ok

\* the same for the packs of the advanced builder alone
C16_AdvancedPackValid ==
    (fn = "AdvancedAxisBuilder.build_axis_pack_from_vectors" /\ out.ok) =>
        /\ out.val.Q.shape = <<InferredD(arg.seeds_vecs), Len(out.val.names)>>
        /\ validate(out.val).ok

\* the same for the basic builder given no more axes than dimensions
C16_BasicPackValidUpToD ==
    (fn = "build_axis_pack_from_vectors" /\ out.ok
        /\ Len(arg.seeds_vecs) <= InferredD(arg.seeds_vecs)) =>
        /\ out.val.Q.shape = <<InferredD(arg.seeds_vecs), Len(out.val.names)>>
        /\ validate(out.val).ok

(***************************************************************************)
(* Diffusing a signal over a skip graph for the scales of the unit test:   *)
(* tau = 0, 0.05, 0.1, 0.2 as counts of 0.05.  Graphs of up to MaxGraph    *)
(* nodes whose Laplacian has an integral spectrum, signals with entries    *)
(* in SignalVals.                                                          *)
(***************************************************************************)
MaxGraph == 3
SignalVals == -2 .. 2
TestTaus == <<0, 1, 2, 4>>

DiffuseInit ==
    /\ RegInit
    /\ fn = "none"
    /\ out = <<>>
    /\ \E n \in 1 .. MaxGraph : \E ms \in SkipVals :
          /\ IntegralSpectrum(build_graph(n, ms).L)
          /\ \E x \in [1 .. n -> SignalVals] :
                arg = [kind |-> "signal", L |-> build_graph(n, ms).L, x |-> x, tau |-> TestTaus]

ApplyDiffuse ==
    /\ arg.kind = "signal"
    /\ Apply("diffuse", DiffuseStacked(arg.L, Arr1(arg.x), arg.tau))

DiffuseNext == ApplyDiffuse

SpecDiffuse == DiffuseInit /\ [][DiffuseNext]_vars

\* y^T L y
dirichlet_energy(L, y) == Dot(y, MatVec(L, y))

\* the energy of the t-th diffused signal, in units of the squared
\* denominator
EnergyAt(t) == dirichlet_energy(arg.L, Vec(out.val.num[t]))

Frac(num, den) == [num |-> num, den |-> den]
FracAdd(a, b) == Frac(a.num * b.den + b.num * a.den, a.den * b.den)
FracGreater(a, b) == a.num * b.den > b.num * a.den
FracEqual(a, b) == a.num * b.den = b.num * a.den

RECURSIVE FracSum(_)
FracSum(xs) == IF xs = <<>> THEN Frac(0, 1) ELSE FracAdd(Head(xs), FracSum(Tail(xs)))

\* np.mean of a non-empty list of scores
FracMean(xs) == LET s == FracSum(xs) IN Frac(s.num, s.den * Len(xs))

\* TinyEnc.encode_text: one row for each token, one zero row for no token
TinyEncVec(tok) ==
    IF tok = "A" THEN <<1, 0, 0>>
    ELSE IF tok = "T" THEN <<0, 1, 0>>
    ELSE IF tok = "B" THEN <<0, 0, 100>>
    ELSE <<0, 0, 0>>

encode_text(text) ==
    IF text = <<>> THEN Arr2(1, 3, <<TinyEncVec("")>>)
    ELSE Arr2(Len(text), 3, [t \in 1 .. Len(text) |-> TinyEncVec(text[t])])

\* truncation or zero padding to length d
align_dim(v, d) == [i \in 1 .. d |-> IF i <= Len(v) THEN v[i] ELSE 0]

_encode_tokens(text, dim) ==
    LET X == encode_text(text)
    IN  IF X.shape[2] # dim
        THEN Arr2(X.shape[1], dim, [t \in 1 .. X.shape[1] |-> align_dim(X.v[t], dim)])
        ELSE X

RECURSIVE WindowsFrom(_, _, _, _)
WindowsFrom(i, T, window, stride) ==
    IF i >= T THEN <<>>
    ELSE <<<<i, Min(T, i + window)>>>> \o WindowsFrom(i + stride, T, window, stride)

sliding_windows(T, window, stride) == WindowsFrom(0, T, window, stride)

\* the score of window w on axis ax: the mean-pooled rows times the axis
\* vector
WindowScore(X, w, ax) ==
    Frac(SumSeq([t \in 1 .. w[2] - w[1] |-> Dot(X.v[w[1] + t], ax.vector)]), w[2] - w[1])

\* one span for each window and axis, windows first
project_scores(X, pack, window, stride) ==
    LET ws == sliding_windows(X.shape[1], window, stride)
        na == Len(pack.axes)
        span(p) ==
            LET w == ws[((p - 1) \div na) + 1]
                ax == pack.axes[((p - 1) % na) + 1]
                s == WindowScore(X, w, ax)
            IN  [i |-> w[1], j |-> w[2], axis |-> ax.name, score |-> s,
                 threshold |-> ax.threshold, breached |-> s.num > ax.threshold * s.den]
    IN  IF ndim(X) # 2 \/ X.shape[2] # pack.dim THEN Exc("ValueError")
        ELSE Ok([p \in 1 .. Len(ws) * na |-> span(p)])

\* the entries of xs at the positions in S, in order
Pick(xs, S) == LET at == SortedKey(S) IN [t \in 1 .. Len(at) |-> xs[at[t]]]

\* the first breached span of each axis
minimal_veto_spans(spans) ==
    LET first(p) == spans[p].breached
                        /\ \A q \in 1 .. p - 1 : ~(spans[q].breached /\ spans[q].axis = spans[p].axis)
    IN  Pick(spans, {p \in 1 .. Len(spans) : first(p)})

\* the mean over the named axes of the mean score of the axis, 0 for an axis
\* without spans
_axis_composite(spans, axes) ==
    LET collected(a) == Pick(spans, {p \in 1 .. Len(spans) : spans[p].axis = a})
        val(a) == IF collected(a) = <<>> THEN Frac(0, 1)
                  ELSE FracMean([p \in 1 .. Len(collected(a)) |-> collected(a)[p].score])
    IN  IF axes = <<>> THEN Frac(0, 1)
        ELSE FracMean([t \in 1 .. Len(axes) |-> val(axes[t])])

_score_candidate(text, logprob, pack, window, stride, pref_axes) ==
    LET X == _encode_tokens(text, pack.dim)
        spans == project_scores(X, pack, window, stride)
        veto == minimal_veto_spans(spans.val)
        composite == _axis_composite(spans.val, pref_axes)
    IN  IF ~spans.ok THEN spans
        ELSE Ok([key |-> <<IF veto # <<>> THEN 0 ELSE 1, composite, logprob>>,
                 proof |-> [pack_id |-> pack.id,
                            spans |-> IF veto # <<>> THEN veto ELSE spans.val,
                            action |-> IF veto # <<>> THEN "refuse" ELSE "allow"]])

\* key >= best_key on tuples: a later candidate replaces an equal one
KeyAtLeast(key, best_key) ==
    \/ key[1] > best_key[1]
    \/ key[1] = best_key[1] /\ FracGreater(key[2], best_key[2])
    \/ key[1] = best_key[1] /\ FracEqual(key[2], best_key[2]) /\ key[3] >= best_key[3]

\* key > best_key on tuples
KeyGreater(key, best_key) ==
    \/ key[1] > best_key[1]
    \/ key[1] = best_key[1] /\ FracGreater(key[2], best_key[2])
    \/ key[1] = best_key[1] /\ FracEqual(key[2], best_key[2]) /\ key[3] > best_key[3]

\* the loop over the candidates from position p on; best is 0 for None
RECURSIVE RankLoop(_, _, _, _, _)
RankLoop(cands, pack, pref_axes, p, best) ==
    IF p > Len(cands) THEN Ok(best)
    ELSE LET scored == _score_candidate(cands[p].text, cands[p].logprob, pack, 32, 16, pref_axes)
         IN  IF ~scored.ok THEN scored
             ELSE IF best.index = 0 \/ KeyGreater(scored.val.key, best.key)
             THEN RankLoop(cands, pack, pref_axes, p + 1,
                           [index |-> p, key |-> scored.val.key, proof |-> scored.val.proof])
             ELSE RankLoop(cands, pack, pref_axes, p + 1, best)

rank_candidates(cands, pack, pref_axes) ==
    LET none == [index |-> 0, key |-> <<0, Frac(0, 1), 0>>,
                 proof |-> [pack_id |-> pack.id, spans |-> <<>>, action |-> ""]]
        best == RankLoop(cands, pack, pref_axes, 1, none)
    IN  IF cands = <<>> THEN Exc("AssertionError")
        ELSE IF ~best.ok THEN best
        ELSE Ok([choice |-> cands[best.val.index], key |-> best.val.key,
                 proof |-> best.val.proof])

(***************************************************************************)
(* Ranking up to MaxCands candidates drawn from Texts and Logprobs under   *)
(* the pack of the unit test, with the thresholds of the two preferred     *)
(* axes at 0 (every occurrence of A or T is a breach) or at 1.             *)
(***************************************************************************)
MaxCands == 3
Texts == {<<>>, <<"A">>, <<"A", "T">>, <<"x", "A">>, <<"B">>}
Logprobs == {-1, 0}
PrefAxes == {<<"autonomy", "truthfulness">>}

RankPack(threshold) ==
    [id |-> "t", dim |-> 3, meta |-> <<>>,
     axes |-> <<[name |-> "autonomy", vector |-> <<1, 0, 0>>, threshold |-> threshold],
                [name |-> "truthfulness", vector |-> <<0, 1, 0>>, threshold |-> threshold],
                [name |-> "risk", vector |-> <<0, 0, 1>>, threshold |-> 1]>>]

RankInit ==
    /\ RegInit
    /\ fn = "none"
    /\ out = <<>>
    /\ \E n \in 1 .. MaxCands : \E cands \in [1 .. n -> [text : Texts, logprob : Logprobs]] :
       \E threshold \in {0, 1} : \E pref_axes \in PrefAxes :
          arg = [kind |-> "cands", cands |-> cands, pack |-> RankPack(threshold),
                 pref_axes |-> pref_axes]

ApplyRankCandidates ==
    /\ arg.kind = "cands"
    /\ Apply("rank_candidates", rank_candidates(arg.cands, arg.pack, arg.pref_axes))

RankNext == ApplyRankCandidates

SpecRank == RankInit /\ [][RankNext]_vars

\* the spans of the i-th candidate
CandSpans(i) ==
    project_scores(_encode_tokens(arg.cands[i].text, arg.pack.dim), arg.pack, 32, 16).val

HasBreach(i) == \E p \in 1 .. Len(CandSpans(i)) : CandSpans(i)[p].breached
Composite(i) == _axis_composite(CandSpans(i), arg.pref_axes)

\* candidate i is ahead of candidate j in the order (no veto, composite,
\* logprob)
Ahead(i, j) ==
    \/ ~HasBreach(i) /\ HasBreach(j)
    \/ /\ HasBreach(i) = HasBreach(j)
       /\ \/ FracGreater(Composite(i), Composite(j))
          \/ /\ FracEqual(Composite(i), Composite(j))
             /\ arg.cands[i].logprob > arg.cands[j].logprob

\* C18: rank_candidates returns the earliest candidate that no candidate is
\* ahead of in the order (no veto, composite, logprob): one with a breach
\* only if all have a breach, and none of the same veto status has a higher
\* composite
C18_LexicographicMax ==
    fn = "rank_candidates" =>
        /\ out.ok
        /\ \E e \in 1 .. Len(arg.cands) :
              /\ out.val.choice = arg.cands[e]
              /\ out.val.key[1] = (IF HasBreach(e) THEN 0 ELSE 1)
              /\ FracEqual(out.val.key[2], Composite(e))
              /\ out.val.key[3] = arg.cands[e].logprob
              /\ \A j \in 1 .. Len(arg.cands) : ~Ahead(j, e)
              /\ \A j \in 1 .. e - 1 : Ahead(e, j)
              /\ HasBreach(e) => \A j \in 1 .. Len(arg.cands) : HasBreach(j)
              /\ \A j \in 1 .. Len(arg.cands) :
                    HasBreach(j) = HasBreach(e) => ~FracGreater(Composite(j), Composite(e))

\* three candidates: the first has a breach and the highest logprob, the
\* second and third differ and tie, and the second is returned
C18_Witness ==
    /\ fn = "rank_candidates"
    /\ out.ok
    /\ Len(arg.cands) = 3
    /\ HasBreach(1) /\ ~HasBreach(2)
    /\ arg.cands[1].logprob > arg.cands[2].logprob
    /\ arg.cands[3] # arg.cands[2]
    /\ ~Ahead(2, 3) /\ ~Ahead(3, 2)
    /\ out.val.choice = arg.cands[2]

(***************************************************************************)
(* POST /v1/frames/index.  The handler sees the registry through load and  *)
(* get_active; its cache is left out here, a stored pack is "ok",          *)
(* "invalid" (load raises ValueError) or absent.  An optional field is the *)
(* record [given, v]; a pack id that is None or "" is "".                  *)
(***************************************************************************)
Infinity == 1000000
None == [given |-> FALSE, v |-> <<>>]
Some(v) == [given |-> TRUE, v |-> v]

HTTPException(status_code) ==
    [status |-> status_code, k |-> 0, ingested |-> 0, source |-> "", rows |-> <<>>]

\* AxisRegistry.load as the handler sees it
RegistryLoad(reg, pack_id) ==
    IF pack_id \notin DOMAIN reg.packs THEN Exc("FileNotFoundError")
    ELSE IF reg.packs[pack_id].state = "invalid" THEN Exc("ValueError")
    ELSE Ok([pack_id |-> pack_id, k |-> reg.packs[pack_id].k, d |-> reg.packs[pack_id].d])

\* AxisRegistry.get_active: None when no pack is active or its load raises
RegistryGetActive(reg) ==
    IF reg.active = "" THEN Exc("None") ELSE
    IF RegistryLoad(reg, reg.active).ok THEN RegistryLoad(reg, reg.active) ELSE Exc("None")

\* k and d taken from the first frame's coords and req.d; k = 0 stands for
\* unresolved
DerivedFromCoords(req) ==
    IF req.frames # <<>> /\ req.frames[1].coords.given
    THEN IF ~req.d.given THEN Exc("422")
         ELSE Ok([k |-> Len(req.frames[1].coords.v), d |-> req.d.v, pack_id |-> "",
                  source |-> "derived"])
    ELSE Ok([k |-> 0, d |-> 0, pack_id |-> "", source |-> "none"])

\* the active pack resolved before the requested one
ResolveActiveFirst(req, reg) ==
    LET active_lp == RegistryGetActive(reg)
        lp == RegistryLoad(reg, req.pack_id)
    IN  IF reg.exists /\ active_lp.ok
        THEN Ok([k |-> active_lp.val.k, d |-> active_lp.val.d, pack_id |-> active_lp.val.pack_id,
                 source |-> "active"])
        ELSE IF req.pack_id # "" /\ lp.ok
        THEN Ok([k |-> lp.val.k, d |-> lp.val.d, pack_id |-> lp.val.pack_id, source |-> "pack"])
        ELSE DerivedFromCoords(req)

\* lines 145-185: k, d and the pack they come from, or the status of the
\* HTTPException; a registry that is None is initialised for a given
\* pack_id, which succeeds (reg.can_init) or not
ResolveK(req, reg) ==
    LET lp == RegistryLoad(reg, req.pack_id)
        active_lp == RegistryGetActive(reg)
    IN  IF req.pack_id # ""
        THEN IF ~reg.exists /\ ~reg.can_init THEN Exc("500")
             ELSE IF lp.ok
             THEN Ok([k |-> lp.val.k, d |-> lp.val.d, pack_id |-> lp.val.pack_id,
                      source |-> "pack"])
             ELSE IF lp.err = "FileNotFoundError" THEN Exc("400")
             ELSE Exc("500")
        ELSE IF reg.exists
        THEN IF active_lp.ok
             THEN Ok([k |-> active_lp.val.k, d |-> active_lp.val.d, pack_id |-> active_lp.val.pack_id,
                      source |-> "active"])
             ELSE DerivedFromCoords(req)
        ELSE DerivedFromCoords(req)

\* TRUE when _validate_coords returns, FALSE when it raises 422
_validate_coords(arr, k) ==
    \/ ~arr.given
    \/ /\ Len(arr.v) = k
       /\ \A i \in 1 .. Len(arr.v) : arr.v[i] # Infinity

FrameAccepted(f, k) ==
    /\ _validate_coords(f.coords, k)
    /\ \A rname \in DOMAIN f.role_coords : _validate_coords(Some(f.role_coords[rname]), k)

\* FrameStore.put from frame i on: the ids upserted so far, and the count
\* or the ValueError
RECURSIVE Put(_, _, _, _, _, _)
Put(frames, frame_vectors, k, d, i, rows) ==
    IF i > Len(frames) THEN [ok |-> TRUE, count |-> Len(frames), rows |-> rows]
    ELSE LET f == frames[i]
         IN  IF f.coords.given /\ Len(f.coords.v) # k
             THEN [ok |-> FALSE, count |-> 0, rows |-> rows]
             ELSE IF \E rname \in DOMAIN f.role_coords : Len(f.role_coords[rname]) # k
             THEN [ok |-> FALSE, count |-> 0, rows |-> rows]
             ELSE IF frame_vectors.given /\ i <= Len(frame_vectors.v)
                     /\ Len(frame_vectors.v[i]) # 3 * d
             THEN [ok |-> FALSE, count |-> 0, rows |-> Append(rows, f.id)]
             ELSE Put(frames, frame_vectors, k, d, i + 1, Append(rows, f.id))

index_frames(req, reg) ==
    LET res == ResolveK(req, reg)
        k == res.val.k
        put == Put(req.frames, req.frame_vectors, k, res.val.d, 1, <<>>)
    IN  IF ~res.ok
        THEN HTTPException(IF res.err = "400" THEN 400 ELSE IF res.err = "422" THEN 422 ELSE 500)
        ELSE IF k = 0 THEN HTTPException(422)
        ELSE IF \E i \in 1 .. Len(req.frames) : ~FrameAccepted(req.frames[i], k)
        THEN HTTPException(422)
        ELSE IF req.frames = <<>>
        THEN [status |-> 200, k |-> k, ingested |-> 0, source |-> res.val.source, rows |-> <<>>]
        ELSE IF ~put.ok THEN [HTTPException(422) EXCEPT !.rows = put.rows]
        ELSE [status |-> 200, k |-> k, ingested |-> put.count, source |-> res.val.source,
              rows |-> put.rows]

(***************************************************************************)
(* Requests of up to MaxFrames frames against a registry holding pack p1   *)
(* with k = 1, pack p2 with k = 2 and an invalid pack.                     *)
(***************************************************************************)
MaxFrames == 2

StoredPacks ==
    [p \in {"p1", "p2", "bad"} |->
        [k |-> IF p = "p2" THEN 2 ELSE 1, d |-> 1,
         state |-> IF p = "bad" THEN "invalid" ELSE "ok"]]

\* axis_registry.REGISTRY set, None and initialisable, None and not
RegistryStates ==
    {[exists |-> TRUE, can_init |-> TRUE], [exists |-> FALSE, can_init |-> TRUE],
     [exists |-> FALSE, can_init |-> FALSE]}

CoordsInputs == {None, Some(<<>>), Some(<<0>>), Some(<<0, 5>>), Some(<<Infinity>>)}
RoleCoordsInputs == {<<>>, [r \in {"agent"} |-> <<0>>]}
FrameInputs(i) ==
    {[id |-> i, coords |-> c, role_coords |-> rc] : c \in CoordsInputs, rc \in RoleCoordsInputs}

IndexInit ==
    /\ RegInit
    /\ fn = "none"
    /\ out = <<>>
    /\ \E n \in 0 .. MaxFrames : \E frames \in [1 .. n -> FrameInputs(0)] :
       \E pack_id \in {"", "p1", "bad", "missing"} : \E active_id \in {"", "p2", "missing"} :
       \E state \in RegistryStates : \E d \in {[given |-> FALSE, v |-> 0], Some(1)} :
       \E frame_vectors \in {None, Some(<<<<0, 0, 0>>>>), Some(<<<<0>>>>)} :
          arg = [kind |-> "index",
                 req |-> [doc_id |-> "doc", pack_id |-> pack_id, d |-> d,
                          frames |-> [i \in 1 .. n |-> [frames[i] EXCEPT !.id = i]],
                          frame_vectors |-> frame_vectors],
                 reg |-> [exists |-> state.exists, can_init |-> state.can_init,
                          packs |-> StoredPacks,
                          active |-> IF state.exists THEN active_id ELSE ""]]

ApplyIndexFrames ==
    /\ arg.kind = "index"
    /\ Apply("index_frames", index_frames(arg.req, arg.reg))

IndexNext == ApplyIndexFrames

SpecIndex == IndexInit /\ [][IndexNext]_vars

\* the k the claimed priority gives: the requested pack's, else the active
\* pack's, else the length of the first frame's coords; 0 when none of them
\* is there
PriorityK ==
    LET req == arg.req
        reg == arg.reg
    IN  IF req.pack_id # "" THEN reg.packs[req.pack_id].k
        ELSE IF reg.active \in {"p1", "p2"} THEN reg.packs[reg.active].k
        ELSE IF req.frames # <<>> /\ req.frames[1].coords.given
        THEN Len(req.frames[1].coords.v)
        ELSE 0

\* the requested pack, if any, can be loaded
PackLoads ==
    arg.req.pack_id = ""
        \/ /\ arg.req.pack_id \in {"p1", "p2"}
           /\ arg.reg.exists \/ arg.reg.can_init

\* C19: an accepted request is answered with the k of the requested pack,
\* else of the active pack, else the length of the first frame's coords, and
\* with ingested equal to the number of frames; a request with a frame whose
\* coords are not of that length is answered with 422
C19_IndexResolvesK ==
    (fn = "index_frames" /\ PackLoads) =>
        /\ out.status = 200 => out.k = PriorityK /\ out.ingested = Len(arg.req.frames)
        /\ (\E i \in 1 .. Len(arg.req.frames) :
                /\ arg.req.frames[i].coords.given
                /\ Len(arg.req.frames[i].coords.v) # PriorityK) => out.status = 422
        /\ out.status \in {200, 422}

\* pack p1 is requested while p2 with another k is active, and both frames
\* of the request are ingested
C19_Witness ==
    /\ fn = "index_frames"
    /\ arg.req.pack_id = "p1"
    /\ arg.reg.active = "p2"
    /\ Len(arg.req.frames) = 2
    /\ arg.req.frames[1].coords.given
    /\ out.status = 200
    /\ out.k = 1
    /\ out.ingested = 2

(***************************************************************************)
(* Frame extraction on its own: up to MaxFrameTokens tokens of one         *)
(* feature with values in FrameVals, so that plateaus and negative         *)
(* saliencies occur, under the packs with a 1 x 1 Q; the threshold is 0,   *)
(* a saliency of the input, or above them all.                             *)
(***************************************************************************)
MaxFrameTokens == 4
FrameVals == {-2, 0, 2}
ArgLens == {1, 2}

Thresholds(s) == {0} \cup {s[i] : i \in 1 .. Len(s)} \cup {s[i] + 1 : i \in 1 .. Len(s)}

FramesInit ==
    /\ RegInit
    /\ fn = "none"
    /\ out = <<>>
    /\ \E n \in 0 .. MaxFrameTokens : \E x \in [1 .. n -> FrameVals] :
       \E pack \in DimPacks(1, 1) :
          /\ pack.Q.shape = <<1, 1>>
          /\ LET X == Arr2(n, 1, [i \in 1 .. n |-> <<x[i]>>])
             IN  \E saliency_thresh \in Thresholds(Vec(token_saliency(X, pack).val)) :
                 \E max_arg_len \in ArgLens : \E role_mode \in RoleModes :
                    arg = [kind |-> "tokens", X |-> X, pack |-> pack,
                           saliency_thresh |-> saliency_thresh, arg_band |-> Half,
                           max_arg_len |-> max_arg_len, role_mode |-> role_mode]

ApplyBuildFrames ==
    /\ arg.kind = "tokens"
    /\ Apply("build_frames",
             build_frames(arg.X, arg.pack, arg.saliency_thresh, arg.arg_band,
                          arg.max_arg_len, arg.role_mode))

FramesNext == ApplyBuildFrames

SpecFrames == FramesInit /\ [][FramesNext]_vars

\* the saliency of the tokens given to build_frames
Saliency == Vec(token_saliency(arg.X, arg.pack).val)

\* token i (from 0) is not below a neighbour and not below the threshold
IsPredicate(i) ==
    /\ i = 0 \/ Saliency[i + 1] >= Saliency[i]
    /\ i = Len(Saliency) - 1 \/ Saliency[i + 1] >= Saliency[i + 2]
    /\ Saliency[i + 1] >= arg.saliency_thresh

\* C20: build_frames returns, in increasing order of i, exactly one frame for
\* each token i whose saliency is at least that of each neighbour and at
\* least saliency_thresh, with predicate (i, i + 1), id f{i} and score s_i
C20_FramePerLocalMaximum ==
    fn = "build_frames" =>
        /\ out.ok
        /\ \A i \in 0 .. Len(Saliency) - 1 :
              Cardinality({t \in 1 .. Len(out.val) : out.val[t].id = i})
                  = (IF IsPredicate(i) THEN 1 ELSE 0)
        /\ \A t \in 1 .. Len(out.val) :
              /\ out.val[t].id \in 0 .. Len(Saliency) - 1
              /\ out.val[t].predicate = <<out.val[t].id, out.val[t].id + 1>>
              /\ out.val[t].score = Saliency[out.val[t].id + 1]
        /\ \A t \in 1 .. Len(out.val) - 1 : out.val[t].id < out.val[t + 1].id

\* a plateau of two tokens above their neighbours: each has its own frame
C20_Witness ==
    /\ fn = "build_frames"
    /\ out.ok
    /\ Len(Saliency) = 4
    /\ Len(out.val) = 2
    /\ out.val[1].id = 1
    /\ out.val[2].id = 2
    /\ out.val[1].score = out.val[2].score
    /\ Saliency[1] < Saliency[2]
    /\ Saliency[4] < Saliency[3]

\* the argument spans attached to a frame
ArgSpans(frame) == {frame.roles[r] : r \in DOMAIN frame.roles}

\* the token indices (from 0) of the half-open span (start, end)
SpanTokens(span) == span[1] .. span[2] - 1

\* the frames returned by build_frames
OutFrames == {out.val[t] : t \in 1 .. Len(out.val)}

\* C21: every argument span of every frame returned by build_frames contains
\* at most max_arg_len tokens
C21_ArgSpanAtMostMaxLen ==
    fn = "build_frames" =>
        /\ out.ok
        /\ \A f \in OutFrames : \A span \in ArgSpans(f) :
              span[2] - span[1] <= arg.max_arg_len

\* what the two loops of _expand_arg bound: at most max_arg_len - 1 tokens
\* before the centre and at most max_arg_len after it
ArgSpanAtMostTwiceMaxLen ==
    fn = "build_frames" =>
        /\ out.ok
        /\ \A f \in OutFrames : \A span \in ArgSpans(f) :
              /\ span[2] - span[1] >= 1
              /\ span[2] - span[1] <= 2 * arg.max_arg_len

\* a span of exactly 2 * max_arg_len tokens is returned
ArgSpanTwiceMaxLenReached ==
    /\ fn = "build_frames"
    /\ out.ok
    /\ \E f \in OutFrames : \E span \in ArgSpans(f) :
          span[2] - span[1] = 2 * arg.max_arg_len

\* C22: every token inside an argument span of a frame with predicate
\* saliency s_p has saliency >= arg_band * s_p
C22_ArgTokensAboveBand ==
    fn = "build_frames" =>
        /\ out.ok
        /\ \A f \in OutFrames : \A span \in ArgSpans(f) : \A i \in SpanTokens(span) :
              AtLeast(Saliency[i + 1],
                      [num |-> arg.arg_band.num * f.score, den |-> arg.arg_band.den])

\* C24: no argument span of a frame with predicate index p contains p, and in
\* "lr" mode the left argument span has only token indices smaller than p
\* and the right one only indices greater than p
C24_ArgSpansBesidePredicate ==
    fn = "build_frames" =>
        /\ out.ok
        /\ \A f \in OutFrames :
              /\ \A span \in ArgSpans(f) : f.id \notin SpanTokens(span)
              /\ "arg_left" \in DOMAIN f.roles =>
                    \A i \in SpanTokens(f.roles["arg_left"]) : i < f.id
              /\ "arg_right" \in DOMAIN f.roles =>
                    \A i \in SpanTokens(f.roles["arg_right"]) : i > f.id

\* the expansions around the left and the right neighbour of the predicate
\* of frame f over the saliency s, as build_frames computes them
LeftExpansion(s, f) ==
    _expand_arg(s, Max(0, f.id - 1), arg.max_arg_len,
                [num |-> arg.arg_band.num * f.score, den |-> arg.arg_band.den])

RightExpansion(s, f) ==
    _expand_arg(s, Min(Len(s) - 1, f.id + 1), arg.max_arg_len,
                [num |-> arg.arg_band.num * f.score, den |-> arg.arg_band.den])

\* mean of s over span a >= (>) mean of s over span b, both non-empty
MeanGeq(s, a, b) ==
    SpanSum(s, a) * (b[2] - b[1]) >= SpanSum(s, b) * (a[2] - a[1])

MeanGreater(s, a, b) ==
    SpanSum(s, a) * (b[2] - b[1]) > SpanSum(s, b) * (a[2] - a[1])

\* C23: in "agent_patient" mode the roles are agent and patient, the two
\* expansions, the agent having a mean saliency >= that of the patient and
\* being the left expansion when the means are equal; in "lr" mode arg_left
\* is the left expansion and arg_right the right one; every attached span is
\* non-empty
C23_RolesByMeanSaliency ==
    fn = "build_frames" =>
        /\ out.ok
        /\ \A s \in {Saliency} : \A f \in OutFrames :
           \A left \in {LeftExpansion(s, f)} : \A right \in {RightExpansion(s, f)} :
              /\ \A span \in ArgSpans(f) : span[2] - span[1] > 0
              /\ arg.role_mode = "agent_patient" =>
                    /\ DOMAIN f.roles \subseteq {"agent", "patient"}
                    /\ DOMAIN f.roles = {"agent", "patient"} =>
                          /\ MeanGeq(s, f.roles["agent"], f.roles["patient"])
                          /\ {f.roles["agent"], f.roles["patient"]} = {left, right}
                          /\ ~MeanGreater(s, f.roles["agent"], f.roles["patient"]) =>
                                /\ f.roles["agent"] = left
                                /\ f.roles["patient"] = right
              /\ arg.role_mode = "lr" =>
                    /\ DOMAIN f.roles \subseteq {"arg_left", "arg_right"}
                    /\ "arg_left" \in DOMAIN f.roles => f.roles["arg_left"] = left
                    /\ "arg_right" \in DOMAIN f.roles => f.roles["arg_right"] = right

\* one frame whose right side has the higher mean and is the agent, and one
\* whose sides are different spans of equal mean with the left as agent
C23_Witness ==
    /\ fn = "build_frames"
    /\ out.ok
    /\ arg.role_mode = "agent_patient"
    /\ \E s \in {Saliency} :
          /\ \E f \in OutFrames :
                /\ DOMAIN f.roles = {"agent", "patient"}
                /\ f.roles["agent"] = RightExpansion(s, f)
                /\ MeanGreater(s, RightExpansion(s, f), LeftExpansion(s, f))
          /\ \E f \in OutFrames :
                /\ DOMAIN f.roles = {"agent", "patient"}
                /\ LeftExpansion(s, f) # RightExpansion(s, f)
                /\ f.roles["agent"] = LeftExpansion(s, f)
                /\ ~MeanGreater(s, LeftExpansion(s, f), RightExpansion(s, f))

(***************************************************************************)
(* A failed activation                                                     *)
(***************************************************************************)
\* One caller, one call after the other, over an artifacts directory whose
\* unloadable packs are of any of the four kinds.
ActivateInit ==
    /\ \E kind \in [NumGood + 1 .. NumGood + NumBad -> 1 .. 4] :
          disk = [p \in Packs |-> IF p <= NumGood
                                   THEN [npz |-> GoodNpz(1), meta |-> GoodMeta]
                                   ELSE BadDisk(kind[p])]
    /\ cache = <<>>
    /\ active = NoPack
    /\ active_file = [pack_id |-> NoPack, hash |-> 0]
    /\ lock = Free
    /\ pc = [t \in Threads |-> "idle"]
    /\ call = [t \in Threads |-> NoCall]
    /\ loc = [t \in Threads |-> NoLoc]
    /\ ret = [t \in Threads |-> RNone]
    /\ ncalls = 0
    /\ nused = 0
    /\ ntamper = 0
    /\ t0 = [t \in Threads |-> 0]
    /\ uses = <<>>
    /\ evicted = NoEvict
    /\ ucache = [p \in Packs |-> NoLP]
    /\ uactive = NoPack
    /\ uret = [t \in Threads |-> RNone]
    /\ FnIdle

SpecActivate == ActivateInit /\ [][SeqNext]_vars

\* what get_active returns in the current state: None without an active
\* pack, the cached pack, or the pack read from disk (None when that fails)
GetActiveNow ==
    IF active = NoPack THEN RNone
    ELSE IF active \in Keys(cache) THEN RPack(Lookup(cache, active))
    ELSE IF ReadPack(active, disk[active]).kind = "error" THEN RNone
    ELSE ReadPack(active, disk[active])

\* thread t starts an activate call in this step
StartsActivate(t) == pc[t] = "idle" /\ pc'[t] # "idle" /\ call'[t].op = "activate"

\* the activate call of thread t ends in this step with the error of
\* missing or invalid artifacts
ActivateFails(t) ==
    /\ call[t].op = "activate"
    /\ pc[t] = "lfd_read"
    /\ pc'[t] = "done"
    /\ ret'[t].kind = "error"

\* C25: an activate call that fails on missing or invalid artifacts fails in
\* its first step after the call, and neither that step nor the call changes
\* the active pack id, active.json or the cache, so that get_active returns
\* what it returned before
C25_FailedActivateChangesNothing ==
    [][\A t \in Threads :
          /\ (StartsActivate(t) \/ ActivateFails(t)) =>
                /\ UNCHANGED <<active, active_file, cache>>
                /\ GetActiveNow' = GetActiveNow
          /\ StartsActivate(t) => pc'[t] = "lfd_read"
          /\ (call[t].op = "activate" /\ pc[t] = "lfd_read"
                /\ ReadPack(call[t].pack_id, disk[call[t].pack_id]).kind = "error")
             => (pc'[t] = "lfd_read" \/ ActivateFails(t))]_vars

\* an activation has failed while another pack is active, cached and
\* recorded in active.json
C25_Witness ==
    \E t \in Threads :
        /\ pc[t] = "done"
        /\ call[t].op = "activate"
        /\ ret[t].kind = "error"
        /\ active # NoPack
        /\ active # call[t].pack_id
        /\ active_file.pack_id = active
        /\ active \in Keys(cache)
        /\ GetActiveNow = RPack(Lookup(cache, active))

(***************************************************************************)
(* The in-memory ANN registry (index/ann.py, numpy backend), run_index     *)
(* (index/pipeline.py) and the recall step of search (routers/search.py).  *)
(* The registry state is held in out: _indices, _payloads and _dims as     *)
(* functions over the pack ids with a has flag for a missing key; err is   *)
(* the exception of the last call ("" for none) and hits the candidates of *)
(* the last search.  A row of an index matrix is [vec, with]: the vector   *)
(* and, as history, the payload that was given with it to add.  A document *)
(* is [doc_id, us]: the utilities u of its windows, as lines 61-88 of      *)
(* run_index compute them, each a vector of integers.                      *)
(***************************************************************************)
MaxAnnCalls == 3
MaxDocs == 1
MaxWindows == 2

AnnIds == {"p1", "p2"}
DocIds == {"a", "b"}
\* vectors of width k: two of width 1, one of any other width
AnnVecs(k) == IF k = 1 THEN {<<0>>, <<1>>} ELSE {[c \in 1 .. k |-> 0]}

\* k of the axis pack stored under data/axes/<axis_pack_id>.json
PackK(axis_pack_id) == IF axis_pack_id = "p1" THEN 1 ELSE 2

AnnEmpty ==
    [_indices |-> [id \in AnnIds |-> [has |-> FALSE, k |-> 0, rows |-> <<>>]],
     _payloads |-> [id \in AnnIds |-> [has |-> FALSE, list |-> <<>>]],
     _dims |-> [id \in AnnIds |-> 0],
     err |-> "",
     hits |-> <<>>]

\* _dims[id] = k; _indices[id] = np.empty((0, k)); _payloads.setdefault(id, [])
init_index(st, axis_pack_id, k) ==
    [st EXCEPT !._dims[axis_pack_id] = k,
               !._indices[axis_pack_id] = [has |-> TRUE, k |-> k, rows |-> <<>>],
               !._payloads[axis_pack_id] =
                   IF @.has THEN @ ELSE [has |-> TRUE, list |-> <<>>]]

\* add: KeyError without an index, ValueError of np.vstack for rows of
\* another width, otherwise the rows and the payloads are appended
add(st, axis_pack_id, items, payloads) ==
    IF ~st._indices[axis_pack_id].has THEN [st EXCEPT !.err = "KeyError"]
    ELSE IF \E j \in 1 .. Len(items) : Len(items[j]) # st._indices[axis_pack_id].k
         THEN [st EXCEPT !.err = "ValueError"]
    ELSE [st EXCEPT
            !._indices[axis_pack_id].rows =
                @ \o [j \in 1 .. Len(items) |-> [vec |-> items[j], with |-> payloads[j]]],
            !._payloads[axis_pack_id].list = @ \o payloads]

\* squared L2 distance
Dist2(a, b) == SumSeq([c \in 1 .. Len(a) |-> (a[c] - b[c]) * (a[c] - b[c])])

\* np.argsort(dists)[:top_k] as positions from 0, equal distances in
\* index order
RECURSIVE ArgsortBy(_, _)
ArgsortBy(dists, S) ==
    IF S = {} THEN <<>>
    ELSE LET lo == CHOOSE i \in S : \A o \in S :
                       dists[i] < dists[o] \/ (dists[i] = dists[o] /\ i <= o)
         IN  <<lo - 1>> \o ArgsortBy(dists, S \ {lo})

query(st, axis_pack_id, vec, top_k) ==
    LET mat == st._indices[axis_pack_id]
    IN  IF ~mat.has \/ Len(mat.rows) = 0 THEN <<>>
        ELSE LET dists == [i \in 1 .. Len(mat.rows) |-> Dist2(mat.rows[i].vec, vec)]
                 idx == ArgsortBy(dists, 1 .. Len(mat.rows))
             IN  SubSeq(idx, 1, Min(top_k, Len(idx)))

get_payloads(st, axis_pack_id) == st._payloads[axis_pack_id].list

\* search, lines 66-70: the payloads at the recalled positions
Recall(st, axis_pack_id, u_q, top_k) ==
    LET idxs == query(st, axis_pack_id, u_q, top_k * 4)
        payloads == get_payloads(st, axis_pack_id)
        kept == SelectSeq(idxs, LAMBDA i : i < Len(payloads))
    IN  [t \in 1 .. Len(kept) |-> [pos |-> kept[t], payload |-> payloads[kept[t] + 1]]]

\* the records of the windows of one document
DocPayloads(doc) ==
    [j \in 1 .. Len(doc.us) |-> [doc_id |-> doc.doc_id, start |-> j - 1, u |-> doc.us[j]]]

\* the loop over docs: a document without windows adds nothing
RECURSIVE IndexDocs(_, _, _)
IndexDocs(st, axis_pack_id, docs) ==
    IF docs = <<>> THEN st
    ELSE IndexDocs(IF Head(docs).us = <<>> THEN st
                   ELSE add(st, axis_pack_id, Head(docs).us, DocPayloads(Head(docs))),
                   axis_pack_id, Tail(docs))

run_index(st, axis_pack_id, docs) ==
    IndexDocs(init_index(st, axis_pack_id, PackK(axis_pack_id)), axis_pack_id, docs)

(***************************************************************************)
(* Calls of init_index, add, run_index and search, at most MaxAnnCalls of  *)
(* the first three; arg counts them.                                       *)
(***************************************************************************)
SeqsUpTo(S, n) == UNION {[1 .. m -> S] : m \in 0 .. n}

AnnDocs(k) == [doc_id : DocIds, us : SeqsUpTo(AnnVecs(k), MaxWindows)]

AnnInit ==
    /\ RegInit
    /\ fn = "none"
    /\ arg = [kind |-> "ann", ncalls |-> 0]
    /\ out = AnnEmpty

AnnCall(name, st) ==
    /\ arg.kind = "ann"
    /\ arg.ncalls < MaxAnnCalls
    /\ fn' = name
    /\ arg' = [arg EXCEPT !.ncalls = @ + 1]
    /\ out' = st
    /\ UNCHANGED regVars

Cleared == [out EXCEPT !.err = "", !.hits = <<>>]

CallInitIndex ==
    \E id \in AnnIds : \E k \in {1, 2} : AnnCall("init_index", init_index(Cleared, id, k))

CallAdd ==
    \E id \in AnnIds : \E k \in {1, 2} : \E doc \in AnnDocs(k) :
        /\ doc.us # <<>>
        /\ AnnCall("add", add(Cleared, id, doc.us, DocPayloads(doc)))

CallRunIndex ==
    \E id \in AnnIds : \E docs \in SeqsUpTo(AnnDocs(PackK(id)), MaxDocs) :
        AnnCall("run_index", run_index(Cleared, id, docs))

CallSearch ==
    /\ arg.kind = "ann"
    /\ fn # "search"
    /\ \E id \in AnnIds :
          /\ out._indices[id].has
          /\ \E u_q \in AnnVecs(out._indices[id].k) : \E top_k \in {1} :
                out' = [Cleared EXCEPT !.hits = Recall(out, id, u_q, top_k)]
    /\ fn' = "search"
    /\ UNCHANGED <<arg, regVars>>

AnnNext ==
    \/ CallInitIndex
    \/ CallAdd
    \/ CallRunIndex
    \/ CallSearch

SpecAnn == AnnInit /\ [][AnnNext]_vars

\* C26: for every indexed pack id the payload list is as long as the index
\* matrix and its entry i is the payload added with row i, and every hit of
\* a search carries the payload of the row at its position
C26_PayloadsAlignedWithVectors ==
    /\ \A id \in AnnIds :
          out._indices[id].has =>
              /\ Len(out._payloads[id].list) = Len(out._indices[id].rows)
              /\ \A i \in 1 .. Len(out._indices[id].rows) :
                    out._payloads[id].list[i] = out._indices[id].rows[i].with
    /\ fn = "search" =>
          \A t \in 1 .. Len(out.hits) : \E id \in AnnIds :
              /\ out._indices[id].has
              /\ out.hits[t].pos < Len(out._indices[id].rows)
              /\ out.hits[t].payload = out._indices[id].rows[out.hits[t].pos + 1].with

\* the alignment for the pack ids that init_index was called on once
PayloadsAlignedWithoutReindexing ==
    \A id \in AnnIds :
        (out._indices[id].has /\ Len(out._payloads[id].list) <= Len(out._indices[id].rows)) =>
            /\ Len(out._payloads[id].list) = Len(out._indices[id].rows)
            /\ \A i \in 1 .. Len(out._indices[id].rows) :
                  out._payloads[id].list[i] = out._indices[id].rows[i].with

\* a search has recalled, at the position of a row of the index, a payload
\* that was not added with that row
StalePayloadRecalled ==
    /\ fn = "search"
    /\ \E t \in 1 .. Len(out.hits) : \A id \in AnnIds :
          out._indices[id].has =>
              /\ out.hits[t].pos < Len(out._indices[id].rows)
              /\ out.hits[t].payload # out._indices[id].rows[out.hits[t].pos + 1].with

(***************************************************************************)
(* The frame store (memory/store.py) behind POST /v1/frames/index.  The    *)
(* store keeps one sqlite connection: conn is what a statement on that     *)
(* connection sees (the writes of the open transaction included), db what  *)
(* has been committed.  A table maps a frame id to the number of the put   *)
(* call that wrote its row, 0 for no row; frame_axis has one entry for the *)
(* axis rows of a frame.  arg counts the put calls and keeps the           *)
(* numbers of the rejected ones.                                           *)
(***************************************************************************)
MaxPuts == 2

FrameIds == 1 .. MaxFrames

NoRows == [fid \in FrameIds |-> 0]
EmptyTables == [frames |-> NoRows, frame_axis |-> NoRows, frame_vectors |-> NoRows]

\* FrameStore.put from frame i on, as batch b: the tables as the connection
\* sees them when put returns (ok) or raises ValueError
RECURSIVE PutRows(_, _, _, _, _, _, _)
PutRows(conn, frames, frame_vectors, k, d, i, b) ==
    IF i > Len(frames) THEN [ok |-> TRUE, conn |-> conn]
    ELSE LET f == frames[i]
             upserted == [conn EXCEPT !.frames[f.id] = b,
                                      !.frame_axis[f.id] = IF f.coords.given THEN b ELSE 0]
         IN  IF f.coords.given /\ Len(f.coords.v) # k
             THEN [ok |-> FALSE, conn |-> conn]
             ELSE IF \E rname \in DOMAIN f.role_coords : Len(f.role_coords[rname]) # k
             THEN [ok |-> FALSE, conn |-> conn]
             ELSE IF frame_vectors.given /\ i <= Len(frame_vectors.v)
             THEN IF Len(frame_vectors.v[i]) # 3 * d
                  THEN [ok |-> FALSE, conn |-> upserted]
                  ELSE PutRows([upserted EXCEPT !.frame_vectors[f.id] = b],
                               frames, frame_vectors, k, d, i + 1, b)
             ELSE PutRows(upserted, frames, frame_vectors, k, d, i + 1, b)

\* put: the loop, then self.conn.commit(); an exception leaves the
\* transaction open
FrameStore_put(st, frames, frame_vectors, k, d, b) ==
    LET r == PutRows(st.conn, frames, frame_vectors, k, d, 1, b)
    IN  IF r.ok THEN [st EXCEPT !.conn = r.conn, !.db = r.conn, !.res = "ok"]
        ELSE [st EXCEPT !.conn = r.conn, !.res = "ValueError"]

\* index_frames on the store: k and d resolved, every frame validated, then
\* put, its ValueError answered with 422
IndexFramesOnStore(st, req, reg, b) ==
    LET res == ResolveK(req, reg)
        k == res.val.k
        put == FrameStore_put(st, req.frames, req.frame_vectors, k, res.val.d, b)
    IN  IF ~res.ok THEN [st EXCEPT !.res = res.err]
        ELSE IF k = 0 THEN [st EXCEPT !.res = "422"]
        ELSE IF \E i \in 1 .. Len(req.frames) : ~FrameAccepted(req.frames[i], k)
        THEN [st EXCEPT !.res = "422"]
        ELSE IF req.frames = <<>> THEN [st EXCEPT !.res = "200"]
        ELSE IF put.res = "ValueError" THEN [put EXCEPT !.res = "422"]
        ELSE [put EXCEPT !.res = "200"]

\* the put calls whose rows a read on the connection returns or counts:
\* search joins frame_axis with frames, trace reads frames, stats counts
\* the rows of the three tables
Returned(conn, read) ==
    LET of(table) == {table[fid] : fid \in FrameIds} \ {0}
    IN  CASE read = "search" -> {conn.frame_axis[fid] : fid \in {g \in FrameIds : conn.frames[g] # 0}} \ {0}
          [] read = "trace"  -> of(conn.frames)
          [] OTHER           -> of(conn.frames) \cup of(conn.frame_axis) \cup of(conn.frame_vectors)

StoreCoords == {None, Some(<<0>>), Some(<<0, 5>>)}
StoreRoleCoords == {<<>>, [r \in {"agent"} |-> <<0>>], [r \in {"agent"} |-> <<0, 0>>]}
StoreVectors == {None, Some(<<<<0, 0, 0>>>>), Some(<<<<0>>>>)}
StoreFrames ==
    UNION {[1 .. n -> [id : FrameIds, coords : StoreCoords, role_coords : StoreRoleCoords]]
              : n \in 1 .. MaxFrames}

\* the registry of the requests: REGISTRY set, pack p1 (k = 1, d = 1) stored
StoreReg == [exists |-> TRUE, can_init |-> TRUE, packs |-> StoredPacks, active |-> ""]

StoreInit ==
    /\ RegInit
    /\ fn = "none"
    /\ arg = [kind |-> "store", nputs |-> 0, rejected |-> {}]
    /\ out = [conn |-> EmptyTables, db |-> EmptyTables, res |-> "", seen |-> {}]

\* a call that writes: numbered, and remembered when it was rejected
Written(name, st) ==
    /\ fn' = name
    /\ out' = [st EXCEPT !.seen = {}]
    /\ arg' = [arg EXCEPT !.nputs = @ + 1,
                          !.rejected = IF st.res \in {"ok", "200"} THEN @
                                       ELSE @ \cup {arg.nputs + 1}]
    /\ UNCHANGED regVars

CallPut ==
    /\ arg.kind = "store"
    /\ arg.nputs < MaxPuts
    /\ \E frames \in StoreFrames : \E frame_vectors \in StoreVectors :
          /\ \A i \in 1 .. Len(frames) : frames[i].id = i
          /\ Written("put", FrameStore_put(out, frames, frame_vectors, 1, 1, arg.nputs + 1))

CallIndexFrames ==
    /\ arg.kind = "store"
    /\ arg.nputs < MaxPuts
    /\ \E frames \in StoreFrames : \E frame_vectors \in StoreVectors :
          /\ \A i \in 1 .. Len(frames) : frames[i].id = i
          /\ Written("index_frames",
                     IndexFramesOnStore(out, [doc_id |-> "doc", pack_id |-> "p1",
                                              d |-> [given |-> FALSE, v |-> 0],
                                              frames |-> frames,
                                              frame_vectors |-> frame_vectors],
                                        StoreReg, arg.nputs + 1))

CallRead ==
    /\ arg.kind = "store"
    /\ fn \in {"put", "index_frames"}
    /\ \E read \in {"search", "trace", "stats"} :
          /\ fn' = read
          /\ out' = [out EXCEPT !.seen = Returned(out.conn, read), !.res = "200"]
    /\ UNCHANGED <<arg, regVars>>

StoreNext ==
    \/ CallPut
    \/ CallIndexFrames
    \/ CallRead

SpecStore == StoreInit /\ [][StoreNext]_vars

\* the put calls that have a row in the tables t
RowsOf(t) == ({t.frames[fid] : fid \in FrameIds} \cup {t.frame_axis[fid] : fid \in FrameIds}
                \cup {t.frame_vectors[fid] : fid \in FrameIds}) \ {0}

\* C27: no row written by a rejected put or index request is seen by a
\* statement on the store's connection, returned by search, trace or stats,
\* or committed
C27_RejectedPutLeavesNoRows ==
    arg.kind = "store" =>
        /\ RowsOf(out.conn) \cap arg.rejected = {}
        /\ RowsOf(out.db) \cap arg.rejected = {}
        /\ out.seen \cap arg.rejected = {}

\* rows of a rejected index request have been committed by a later put
RejectedRowsCommitted ==
    /\ arg.kind = "store"
    /\ RowsOf(out.db) \cap arg.rejected # {}

\* the first request is an index request answered with 422 and its rows
\* are in the tables the connection sees
IndexRejectionLeavesRows ==
    /\ arg.kind = "store"
    /\ arg.nputs = 1
    /\ fn = "index_frames"
    /\ out.res = "422"
    /\ RowsOf(out.conn) = {1}

(***************************************************************************)
(* Aggregation before and after a round trip: a valid pack of up to        *)
(* MaxAxes axes with weights over WVals (float64 values, some of them not  *)
(* float32 numbers), any capacity over MuVals on any set of subsets, the   *)
(* empty subset included, and utilities over UVals.                        *)
(***************************************************************************)
ReloadInit ==
    /\ RegInit /\ fn = "none" /\ out = <<>>
    /\ \E k \in 1 .. MaxAxes : \E w \in [1 .. k -> WVals] : \E u \in [1 .. k -> UVals] :
       \E D \in SUBSET Subsets(k) : \E mu \in [D -> MuVals] :
          arg = [kind |-> "reload", u |-> Arr1(u), pack |-> AggregatePack(w, mu)]

\* aggregate on the pack and on from_json_obj(to_json_obj(pack))
ApplyAggregateReloaded ==
    /\ arg.kind = "reload"
    /\ Apply("aggregate_reloaded",
             [before |-> aggregate(arg.u, arg.pack),
              reloaded |-> LoadSave(arg.pack),
              after |-> aggregate(arg.u, LoadSave(arg.pack).val)])

ReloadNext == ApplyAggregateReloaded

SpecReload == ReloadInit /\ [][ReloadNext]_vars

\* the weights of the pack are float32 numbers
WeightsAreFloat32 == arg.pack.weights = F32Arr(arg.pack.weights)

\* C28: for a pack with float32 weights, aggregate gives the same value on
\* the reloaded pack as on the original, and a non-empty mu is reloaded as a
\* non-empty mu
C28_ReloadPreservesAggregate ==
    (fn = "aggregate_reloaded" /\ WeightsAreFloat32) =>
        /\ out.reloaded.ok
        /\ out.after = out.before
        /\ DOMAIN arg.pack.mu # {} => DOMAIN out.reloaded.val.mu # {}

\* the same for the capacities with a value on some non-empty subset
ReloadPreservesAggregateOfProperMu ==
    (fn = "aggregate_reloaded" /\ WeightsAreFloat32
        /\ (DOMAIN arg.pack.mu = {} \/ DOMAIN arg.pack.mu # {{}})) =>
        /\ out.reloaded.ok
        /\ out.after = out.before
        /\ DOMAIN arg.pack.mu # {} => DOMAIN out.reloaded.val.mu # {}

\* the linear aggregate has changed with the float64 weights rounded
RoundedWeightsChangeAggregate ==
    /\ fn = "aggregate_reloaded"
    /\ DOMAIN arg.pack.mu = {}
    /\ out.reloaded.ok
    /\ out.after # out.before

(***************************************************************************)
(* The routes POST /pipeline/analyze and POST /resonance                   *)
(* (coherence/api/routers/pipeline.py, resonance.py) on a request that     *)
(* carries vectors and an inline axis pack: X is np.asarray(req.vectors).  *)
(* A response is its status code and the kind of its detail; a raised      *)
(* exception is Exc of its class, an HTTPException together with the       *)
(* response it carries.                                                    *)
(***************************************************************************)
Answer(status_code, detail) == [status |-> status_code, detail |-> detail]

RaiseHTTP(status_code, detail) ==
    [ok |-> FALSE, err |-> "HTTPException", val |-> Answer(status_code, detail)]

\* "except Exception as e: raise HTTPException(500, ...)": HTTPException is
\* a subclass of Exception, so whatever the body raised is replaced
ExceptException(body, detail) ==
    IF body.ok THEN body ELSE RaiseHTTP(500, detail)

\* what the client receives
Respond(r) == IF r.ok THEN Answer(200, "ok") ELSE r.val

analyze(X, pack, params) ==
    IF ndim(X) # 2 THEN Respond(RaiseHTTP(400, "vectors must be 2D (n,d)"))
    ELSE IF X.shape[2] # pack.Q.shape[1]
    THEN Respond(ExceptException(RaiseHTTP(422, "Embedding dim != axis pack dim"),
                                 "Pipeline failed"))
    ELSE IF run_pipeline_from_vectors(X, pack, params).ok
    THEN Answer(200, "ok")
    ELSE Respond(ExceptException(Exc("Exception"), "Pipeline failed"))

\* X as the resonance route scores it: a 1-D array becomes one row
RowsOfRequest(X) ==
    IF ndim(X) = 1 THEN Arr2(1, X.shape[1], <<Vec(X)>>) ELSE X

resonance_route(X0, pack, return_intermediate) ==
    LET X == RowsOfRequest(X0)
        body == IF ndim(X) < 2 THEN Exc("IndexError")
                ELSE IF X.shape[2] # pack.Q.shape[1]
                THEN RaiseHTTP(422, "Embedding dim != axis pack dim")
                ELSE resonance(X, pack)
        scores == ExceptException(body, "Resonance failed")
        coords == project(X, pack)
        utils == IF coords.ok THEN utilities(coords.val, pack) ELSE coords
    IN  IF ~scores.ok \/ ~return_intermediate THEN Respond(scores)
        ELSE Respond(ExceptException(utils, "Intermediate computation failed"))

ApplyAnalyze ==
    Apply("analyze", analyze(arg.X, arg.pack, arg.params))

ApplyResonanceRoute ==
    \E return_intermediate \in BOOLEAN :
        Apply("resonance_route", resonance_route(arg.X, arg.pack, return_intermediate))

RoutesInit ==
    /\ RegInit /\ fn = "none" /\ out = <<>>
    /\ \E ms \in SkipVals :
       \E sizes \in {{n \in 0 .. Max(MaxN, MaxD + 1) : Diffusible(n, ms)}} :
       \E X \in XInputs(MaxN, MaxD + 1) : \E pack \in DimPacks(MaxD, MaxK) :
       \E tau \in TauVals : \E rm \in RoleModes : \E sl \in 1 .. MaxSpanLen :
          /\ IF tau = NoTau \/ ndim(X) = 0 THEN TRUE ELSE X.shape[1] \in sizes
          /\ arg = [kind |-> "vectors", X |-> X, pack |-> pack,
                    params |-> [max_span_len |-> sl, max_skip |-> ms,
                                diffusion_tau |-> tau, role_mode |-> rm]]
RoutesNext == ApplyAnalyze \/ ApplyResonanceRoute
SpecRoutes == RoutesInit /\ [][RoutesNext]_vars

\* the route has reached its dimension check with an X of shape (n, d)
\* whose d is not the row count of pack.Q
RouteDimensionMismatch ==
    /\ fn \in {"analyze", "resonance_route"}
    /\ \E X \in {IF fn = "analyze" THEN arg.X ELSE RowsOfRequest(arg.X)} :
          ndim(X) = 2 /\ X.shape[2] # arg.pack.Q.shape[1]

\* C29: when the embedding dimension of the input differs from the axis
\* pack dimension, POST /pipeline/analyze and POST /resonance respond with
\* status 422 and the dimension-mismatch detail, not with a generic 500.
C29_DimensionMismatchIs422 ==
    RouteDimensionMismatch =>
        out.status = 422 /\ out.detail = "Embedding dim != axis pack dim"

\* what the routes do instead: every dimension mismatch is answered with
\* status 500 and the detail of the generic failure
DimensionMismatchIs500 ==
    RouteDimensionMismatch =>
        /\ out.status = 500
        /\ out.detail = (IF fn = "analyze" THEN "Pipeline failed" ELSE "Resonance failed")

\* both routes have answered a dimension mismatch
AnalyzeMismatchAnswered == fn = "analyze" /\ RouteDimensionMismatch
ResonanceMismatchAnswered == fn = "resonance_route" /\ RouteDimensionMismatch

(***************************************************************************)
(* POST /v1/eval/text step by step (ethicalai/api/eval.py, eval/spans.py): *)
(* eval_text answers 409 without an active pack, otherwise encodes the     *)
(* text to T rows and calls project_scores, whose first step is the while  *)
(* loop of sliding_windows.  arg is the request as the loop sees it        *)
(* (T, window, stride: EvalRequest declares the last two as plain int),    *)
(* out holds the position in the handler (pc), the loop variable i and the *)
(* list of windows.  The list is recorded up to LoopCap windows; LoopCap   *)
(* exceeds every T, so a loop that advances is never cut short.            *)
(***************************************************************************)
MaxEvalT == 3
MaxEvalAxes == 2
LoopCap == MaxEvalT + 2
EvalInts == -1 .. MaxEvalT

EvalInit ==
    /\ RegInit /\ fn = "none"
    /\ \E T \in 0 .. MaxEvalT : \E window \in EvalInts : \E stride \in EvalInts :
       \E axes \in 0 .. MaxEvalAxes :
          arg = [T |-> T, window |-> window, stride |-> stride, axes |-> axes]
    /\ out = [pc |-> "request", status |-> 0, i |-> 0, out |-> <<>>, spans |-> 0]

\* eval_text up to the call of sliding_windows: i = 0, out = []
EvalText ==
    /\ out.pc = "request"
    /\ fn' = "eval_text"
    /\ out' = IF arg.axes = 0 THEN [out EXCEPT !.pc = "done", !.status = 409]
              ELSE [out EXCEPT !.pc = "while"]
    /\ UNCHANGED <<arg, regVars>>

\* one iteration of "while i < T"
WhileBody ==
    /\ out.pc = "while"
    /\ out.i < arg.T
    /\ Len(out.out) < LoopCap
    /\ out' = [out EXCEPT !.out = Append(@, <<out.i, Min(arg.T, out.i + arg.window)>>),
                          !.i = @ + arg.stride]
    /\ UNCHANGED <<fn, arg, regVars>>

\* the loop condition fails and sliding_windows returns its list
WhileExit ==
    /\ out.pc = "while"
    /\ out.i >= arg.T
    /\ out' = [out EXCEPT !.pc = "windows"]
    /\ UNCHANGED <<fn, arg, regVars>>

\* the rest of project_scores and eval_text: one span for each window and
\* axis, then the response
ProjectScores ==
    /\ out.pc = "windows"
    /\ out' = [out EXCEPT !.pc = "done", !.status = 200,
                          !.spans = Len(out.out) * arg.axes]
    /\ UNCHANGED <<fn, arg, regVars>>

EvalNext == EvalText \/ WhileBody \/ WhileExit \/ ProjectScores
SpecEval == EvalInit /\ [][EvalNext]_vars
SpecEvalFair == SpecEval /\ WF_vars(EvalNext)

\* C30: sliding_windows(T, window, stride) terminates with a finite list of
\* windows for every T, window and stride the request model accepts: each
\* iteration of its loop moves i towards T, so the loop is left after at
\* most T iterations and project_scores and eval_text complete.
C30_SlidingWindowsTerminates ==
    [][WhileBody => (arg.T - out.i)' < arg.T - out.i]_vars

\* the same bound on the list: inside the loop it never has more than T
\* windows when the stride is positive
PositiveStrideAtMostTWindows ==
    (fn = "eval_text" /\ arg.stride >= 1) => Len(out.out) <= arg.T

\* with a positive stride the step-by-step loop returns what the recursive
\* definition computes
PositiveStrideWindows ==
    (out.pc \in {"windows", "done"} /\ out.status # 409 /\ arg.stride >= 1)
        => out.out = sliding_windows(arg.T, arg.window, arg.stride)

\* with a positive stride every request is answered
PositiveStrideCompletes == (arg.stride >= 1) => <>(out.pc = "done")

\* with a stride of 0 or less and at least one row the loop is never left:
\* i < T holds after every iteration
NonPositiveStrideStaysInLoop ==
    (fn = "eval_text" /\ arg.axes > 0 /\ arg.stride <= 0 /\ arg.T >= 1)
        => out.pc = "while" /\ out.i < arg.T

\* the loop has run more than T times and its condition still holds
LoopRunsOn ==
    /\ out.pc = "while"
    /\ out.i < arg.T
    /\ Len(out.out) > arg.T
    /\ Len(out.out) = LoopCap

====
